---- MODULE Spec2Model ----
(***************************************************************************)
(* Model of the axial marching engine of DASSH (src/dassh/reactor.py):     *)
(*   - the axial mesh planner (Reactor._setup_axial_region_bnds,           *)
(*     _setup_overall_axial_mesh_req, _setup_zpts, _check_dz),             *)
(*   - the perimeter mesh reconciliation (approximate_temps),              *)
(*   - the sweep driver (Reactor.temperature_sweep, axial_step,            *)
(*     axial_step_parallel, _calculate_asm_temperatures) with the worker   *)
(*     pool of the parallel mode.                                          *)
(*                                                                         *)
(* Lengths are integers counted in a fine unit.  np.around(v, 12) rounds   *)
(* to the nearest multiple of AroundGrid fine units (ties to even, as      *)
(* numpy does); np.floor(v * 1e6) / 1e6 rounds down to a multiple of       *)
(* FloorGrid fine units; the accuracy ceiling 0.01 m is MaxStep.           *)
(***************************************************************************)
EXTENDS Integers, Sequences, FiniteSets, TLC

VARIABLES
    pc,               \* position of the Reactor constructor / of the call
    ax_bnd,           \* raw boundary planes collected from power, regions, user
    min_dz,           \* self.min_dz['dz']: stable step per assembly (+ gap)
    axial_mesh_size,  \* self._options['axial_mesh_size'] (None or a length)
    axial_bnds,       \* self.axial_bnds: sorted, rounded, duplicate free
    core_length,      \* self.core_length
    req_dz,           \* self.req_dz
    log,              \* messages given to self.log by the mesh planner
    z,                \* list z of _setup_zpts (self.z once returned)
    dz,               \* list dz of _setup_zpts (self.dz once returned)
    x,                \* approximate_temps: source positions along a hex side
    y,                \* approximate_temps: source temperatures, six sides flat
    x_new,            \* approximate_temps: target positions
    asm_lstsq_params, \* approximate_temps: None or the cached basis
    y_ret,            \* approximate_temps: the returned array
    options,          \* self._options (parallel, write_output, dump any) and
                      \* whether self.core.model is set
    fail,             \* the task that raises: None or <<plane, phase, Unit>>
    step_i,           \* i of the loop of temperature_sweep
    asm_i,            \* position in the loops over self.assemblies
    assemblies,       \* self.assemblies
    core,             \* self.core: coolant_gap_temp and times it was updated
    t_duct,           \* t_duct of axial_step / axial_step_parallel
    updated_asm,      \* updated_asm of axial_step_parallel
    tasks,            \* every task given to the pool, in submission order
    pool,             \* the mp.Pool of the sweep and its handler threads
    files,            \* self._options['dump']['files']
    summary,          \* the output summary was written
    raised,           \* an error left temperature_sweep
    inp,              \* dassh_input.data: what the Reactor is built from
    stepcount,        \* self._stepcount
    dump_step,        \* dump_step of the axial step entered last
    sink,             \* the records written to the dump files, in order
    sweeps,           \* calls of temperature_sweep on this Reactor so far
    main              \* run_dassh: its arguments, i, and the Reactors it built

meshvars == <<ax_bnd, min_dz, axial_mesh_size, axial_bnds, core_length,
              req_dz, log, z, dz>>

approxvars == <<x, y, x_new, asm_lstsq_params, y_ret>>

sweepvars == <<options, fail, step_i, asm_i, assemblies, core, t_duct,
               updated_asm, tasks, pool, files, summary, raised>>

reactorvars == <<inp, stepcount, dump_step, sink, sweeps>>

mainvars == <<main>>

vars == <<pc, meshvars, approxvars, sweepvars, reactorvars, mainvars>>

\* Python None for an option that holds a length: the empty tuple; a length v
\* that is set is the tuple <<v>>
None == <<>>

Some(v) == <<v>>

Val(o) == o[1]

\* no Reactor is built: nothing was read, counted or written
ReactorIdle ==
    /\ inp = None
    /\ stepcount = 0
    /\ dump_step = FALSE
    /\ sink = <<>>
    /\ sweeps = 0
    /\ main = None

\* no sweep is under way: the state of the sweep driver outside a sweep
SweepIdle ==
    /\ ReactorIdle
    /\ options = [parallel |-> FALSE, gap_model |-> FALSE,
                  dump_any |-> FALSE, write_output |-> FALSE]
    /\ fail = None
    /\ step_i = 0
    /\ asm_i = 0
    /\ assemblies = <<>>
    /\ core = [coolant_gap_temp |-> <<>>, updates |-> 0]
    /\ t_duct = <<>>
    /\ updated_asm = <<>>
    /\ tasks = <<>>
    /\ pool = [state |-> "none", handlers_alive |-> TRUE]
    /\ files = "unset"
    /\ summary = FALSE
    /\ raised = FALSE

\* ---------------------------------------------------------------- bounds
MaxZ == 8          \* largest raw boundary plane (fine units)
MaxBnds == 3       \* most raw boundary planes collected
MaxMinDz == 7      \* largest stable step computed for an assembly or the gap
MaxMeshSize == 7   \* largest user-requested axial step size

\* ------------------------------------------------------ program constants
AroundGrid == 2    \* np.around(., 12): 1e-12 m, in fine units
FloorGrid == 2     \* np.floor(. * 1e6) / 1e6: 1e-6 m, in fine units
MaxStep == 4       \* 0.01 m accuracy ceiling, in fine units

\* the loop of _setup_zpts is followed for at most this many points; a mesh
\* that advances at every iteration never needs more than MaxZ + 2 of them
MaxPts == MaxZ + 3

\* ------------------------------------------------------------- helpers
Last(s) == s[Len(s)]

SetMin(S) == CHOOSE m \in S : \A e \in S : m <= e

SetMax(S) == CHOOSE m \in S : \A e \in S : m >= e

Range(s) == {s[i] : i \in DOMAIN s}

\* np.min over a list
NpMin(s) == SetMin(Range(s))

\* np.around(v, 12) for v >= 0: nearest multiple of AroundGrid, ties to even
Around12(v) ==
    LET q == v \div AroundGrid
        r == v % AroundGrid
    IN  IF 2 * r < AroundGrid THEN q * AroundGrid
        ELSE IF 2 * r > AroundGrid THEN (q + 1) * AroundGrid
        ELSE IF q % 2 = 0 THEN q * AroundGrid
        ELSE (q + 1) * AroundGrid

\* np.floor(v * 1e6) / 1e6
Floor6(v) == (v \div FloorGrid) * FloorGrid

\* np.unique: the sorted sequence of the distinct elements
RECURSIVE NpUnique(_)
NpUnique(S) ==
    IF S = {} THEN <<>>
    ELSE LET m == SetMin(S) IN <<m>> \o NpUnique(S \ {m})

\* --------------------------------------------------------------- _check_dz
\* cross_boundary = [z < bi and z + self.req_dz > bi for bi in axial_bnds]
CrossBoundary(zz, bnds, req) ==
    [i \in DOMAIN bnds |-> zz < bnds[i] /\ zz + req > bnds[i]]

CheckDz_NoTruncation(zz, bnds, req) == req

CheckDz_LastCrossed(zz, bnds, req) ==
    LET zr == Around12(zz)
        cross_boundary == CrossBoundary(zr, bnds, req)
    IN  IF ~ \E i \in DOMAIN bnds : cross_boundary[i]
        THEN req
        ELSE LET crossed_bound ==
                     SetMax({i \in DOMAIN bnds : cross_boundary[i]})
             IN  Around12(bnds[crossed_bound] - zr)

CheckDz(zz, bnds, req) ==
    LET zr == Around12(zz)
        cross_boundary == CrossBoundary(zr, bnds, req)
    IN  IF ~ \E i \in DOMAIN bnds : cross_boundary[i]
        THEN req
        ELSE LET crossed_bound ==
                     SetMin({i \in DOMAIN bnds : cross_boundary[i]})
             IN  Around12(bnds[crossed_bound] - zr)

\* ------------------------------------------ _setup_overall_axial_mesh_req
\* the value of self.req_dz after np.floor(np.min(...) * 1e6) / 1e6
ReqDzFloor(mdz) == Floor6(NpMin(mdz))

UserSizeApplies_Always(ams, rq) == ams /= None

UserSizeApplies(ams, rq) == ams /= None /\ Val(ams) <= rq

OverallReqDz_ClipAlways(mdz, ams) ==
    LET rq == ReqDzFloor(mdz)
        r1 == IF UserSizeApplies(ams, rq) THEN Val(ams) ELSE rq
    IN  IF r1 > MaxStep THEN MaxStep ELSE r1

OverallReqDz_NoClip(mdz, ams) ==
    LET rq == ReqDzFloor(mdz)
    IN  IF UserSizeApplies(ams, rq) THEN Val(ams) ELSE rq

OverallReqDz(mdz, ams) ==
    LET rq == ReqDzFloor(mdz)
    IN  IF UserSizeApplies(ams, rq) THEN Val(ams)
        ELSE IF rq > MaxStep THEN MaxStep ELSE rq

OverallLog(mdz, ams) ==
    LET rq == ReqDzFloor(mdz)
    IN  <<"required">> \o
        (IF UserSizeApplies(ams, rq) THEN <<"using_user">>
         ELSE (IF ams /= None /\ Val(ams) > rq THEN <<"ignoring_user">> ELSE <<>>)
              \o (IF rq > MaxStep THEN <<"reducing">> ELSE <<>>))

\* ------------------------------------------------------------------ Init
RawBndSets == {S \in SUBSET (0 .. MaxZ) : Cardinality(S) \in 1 .. MaxBnds}

MinDzLists == {<<a>> : a \in 1 .. MaxMinDz}
              \cup {<<a, g>> : a \in 1 .. MaxMinDz, g \in 1 .. MaxMinDz}

MeshInit ==
    /\ pc = "setup_axial_region_bnds"
    /\ ax_bnd \in RawBndSets
    /\ min_dz \in MinDzLists
    /\ axial_mesh_size \in {None} \cup {Some(v) : v \in 1 .. MaxMeshSize}
    /\ axial_bnds = <<>>
    /\ core_length = 0
    /\ req_dz = 0
    /\ log = <<>>
    /\ z = <<>>
    /\ dz = <<>>
    /\ x = <<>>
    /\ y = <<>>
    /\ x_new = <<>>
    /\ asm_lstsq_params = None
    /\ y_ret = <<>>
    /\ SweepIdle

\* --------------------------------------------------------------- actions
\* Reactor._setup_axial_region_bnds
SetupAxialRegionBnds ==
    /\ pc = "setup_axial_region_bnds"
    /\ axial_bnds' = NpUnique({Around12(b) : b \in ax_bnd})
    /\ core_length' = Last(axial_bnds')
    /\ pc' = "setup_overall_axial_mesh_req"
    /\ UNCHANGED <<ax_bnd, min_dz, axial_mesh_size, req_dz, log, z, dz>>
    /\ UNCHANGED approxvars
    /\ UNCHANGED <<sweepvars, reactorvars, mainvars>>

\* Reactor._setup_overall_axial_mesh_req
SetupOverallAxialMeshReq ==
    /\ pc = "setup_overall_axial_mesh_req"
    /\ req_dz' = OverallReqDz(min_dz, axial_mesh_size)
    /\ log' = log \o OverallLog(min_dz, axial_mesh_size)
    /\ pc' = "setup_zpts"
    /\ UNCHANGED <<ax_bnd, min_dz, axial_mesh_size, axial_bnds, core_length,
                   z, dz>>
    /\ UNCHANGED approxvars
    /\ UNCHANGED <<sweepvars, reactorvars, mainvars>>

\* Reactor._setup_zpts: z = [0.0]; dz = []
SetupZptsEnter ==
    /\ pc = "setup_zpts"
    /\ z' = <<0>>
    /\ dz' = <<>>
    /\ pc' = "zpts_loop"
    /\ UNCHANGED <<ax_bnd, min_dz, axial_mesh_size, axial_bnds, core_length,
                   req_dz, log>>
    /\ UNCHANGED approxvars
    /\ UNCHANGED <<sweepvars, reactorvars, mainvars>>

\* one iteration of `while z[-1] < self.core_length`
SetupZptsIterate ==
    /\ pc = "zpts_loop"
    /\ Last(z) < core_length
    /\ Len(z) < MaxPts
    /\ LET d == CheckDz(Last(z), axial_bnds, req_dz)
       IN  /\ dz' = Append(dz, d)
           /\ z' = Append(z, Around12(Last(z) + d))
    /\ UNCHANGED <<pc, ax_bnd, min_dz, axial_mesh_size, axial_bnds,
                   core_length, req_dz, log>>
    /\ UNCHANGED approxvars
    /\ UNCHANGED <<sweepvars, reactorvars, mainvars>>

\* the loop condition fails: return np.array(z), np.array(dz)
SetupZptsReturn ==
    /\ pc = "zpts_loop"
    /\ ~ (Last(z) < core_length)
    /\ pc' = "mesh_done"
    /\ UNCHANGED <<ax_bnd, min_dz, axial_mesh_size, axial_bnds, core_length,
                   req_dz, log, z, dz>>
    /\ UNCHANGED approxvars
    /\ UNCHANGED <<sweepvars, reactorvars, mainvars>>

MeshNext ==
    \/ SetupAxialRegionBnds
    \/ SetupOverallAxialMeshReq
    \/ SetupZptsEnter
    \/ SetupZptsIterate
    \/ SetupZptsReturn

SpecMesh == MeshInit /\ [][MeshNext]_vars

\* ======================================================== approximate_temps
NSides == 6        \* ym.shape = (6, ...): the six sides of the hexagon

\* np.roll(v, 1) reads, for side s, the entry of the previous side
PrevSide(s) == IF s = 1 THEN NSides ELSE s - 1

RECURSIVE SumTo(_, _)
\* f[1] + ... + f[n]
SumTo(f, n) == IF n = 0 THEN 0 ELSE f[n] + SumTo(f, n - 1)

RECURSIVE Pow(_, _)
Pow(b, e) == IF e = 0 THEN 1 ELSE b * Pow(b, e - 1)

\* ym: y reshaped to (6, n), with the last column rolled by one side put in
\* front as column 1 (the corner at which each side starts)
Ym(yy) ==
    LET n == Len(yy) \div NSides
    IN  [s \in 1 .. NSides |->
            [c \in 1 .. n + 1 |->
                IF c = 1 THEN yy[PrevSide(s) * n]
                ELSE yy[(s - 1) * n + (c - 1)]]]

\* np.linspace(a, b, m): m evenly spaced samples, the last one set to b
Linspace(a, b, m) ==
    [k \in 1 .. m |->
        IF k = m /\ m > 1 THEN b
        ELSE IF m = 1 THEN a
        ELSE a + ((k - 1) * (b - a)) \div (m - 1)]

\* Least-squares fit of a polynomial of degree 2 to the points (xs[j], col[j])
\* (np.polynomial.legendre.legfit / np.linalg.lstsq on the cached basis) and
\* its value at t (legval), by the normal equations: with S(k) the sum of the
\* k-th powers of xs, M[a][b] = S(a + b), Cof its cofactors and LsqDet its
\* determinant, the value is sum_j HatNum(xs, j, t) * col[j] / LsqDet(xs).
PowSum(xs, k) == SumTo([j \in DOMAIN xs |-> Pow(xs[j], k)], Len(xs))

PowSums(xs) == [k \in 0 .. 4 |-> PowSum(xs, k)]

Cof(S) ==
    <<<<S[2] * S[4] - S[3] * S[3],
        S[2] * S[3] - S[1] * S[4],
        S[1] * S[3] - S[2] * S[2]>>,
      <<S[2] * S[3] - S[1] * S[4],
        S[0] * S[4] - S[2] * S[2],
        S[1] * S[2] - S[0] * S[3]>>,
      <<S[1] * S[3] - S[2] * S[2],
        S[1] * S[2] - S[0] * S[3],
        S[0] * S[2] - S[1] * S[1]>>>>

LsqDet(xs) ==
    LET S == PowSums(xs)
        c == Cof(S)
    IN  S[0] * c[1][1] + S[1] * c[1][2] + S[2] * c[1][3]

HatNum(c, xj, t) ==
    (c[1][1] + c[1][2] * xj + c[1][3] * xj * xj)
        + t * (c[2][1] + c[2][2] * xj + c[2][3] * xj * xj)
        + t * t * (c[3][1] + c[3][2] * xj + c[3][3] * xj * xj)

\* the weight of every source sample in the fitted value at every target
HatNums(xs, xn) ==
    LET c == Cof(PowSums(xs))
    IN  [k \in DOMAIN xn |-> [j \in DOMAIN xs |-> HatNum(c, xs[j], xn[k])]]

FitVal(w, det, col) ==
    SumTo([j \in DOMAIN w |-> w[j] * col[j]], Len(w)) \div det

\* coeff from legfit(x, ym.T, 2), or from lstsq on the cached basis (which
\* was built from the positions held in the parameters); then legval(x_new)
LegFitVal(xs, ym, xn, params) ==
    LET basis == IF params = None THEN xs ELSE params.x_pts
        fit == CHOOSE f \in {<<HatNums(basis, xn), LsqDet(basis)>>} : TRUE
    IN  [s \in 1 .. NSides |->
            [k \in DOMAIN xn |-> FitVal(fit[1][k], fit[2], ym[s])]]

\* y_new[:, -1] = ym[:, -1]
CornerOverwrite_Skipped(y_new, ym) == y_new

CornerOverwrite(y_new, ym) ==
    [s \in 1 .. NSides |->
        [k \in DOMAIN y_new[s] |->
            IF k = Len(y_new[s]) THEN Last(ym[s]) ELSE y_new[s][k]]]

\* y_new[:, 1:].flatten()
StripAndFlatten_DropLast(y_new) ==
    LET m == Len(y_new[1])
    IN  [i \in 1 .. NSides * (m - 1) |->
            y_new[((i - 1) \div (m - 1)) + 1][((i - 1) % (m - 1)) + 1]]

StripAndFlatten(y_new) ==
    LET m == Len(y_new[1])
    IN  [i \in 1 .. NSides * (m - 1) |->
            y_new[((i - 1) \div (m - 1)) + 1][((i - 1) % (m - 1)) + 2]]

\* the branch of approximate_temps that produces the returned array
ApproxBranch(xs, xn) ==
    IF xs = xn THEN "identity"
    ELSE IF Len(xs) = 2 THEN "linear"
    ELSE IF Len(xn) = 2 THEN "corners"
    ELSE "fit"

ApproximateTemps_TwoPointFirstInterior(xs, yy, xn, params) ==
    IF xs = xn THEN yy
    ELSE LET ym == Ym(yy)
             y_new ==
                 IF Len(xs) = 2
                 THEN [s \in 1 .. NSides |->
                          Linspace(ym[s][1], ym[s][2], Len(xn))]
                 ELSE IF Len(xn) = 2
                 THEN [s \in 1 .. NSides |-> <<ym[s][1], ym[s][2]>>]
                 ELSE CornerOverwrite(LegFitVal(xs, ym, xn, params), ym)
         IN  StripAndFlatten(y_new)

ApproximateTemps_NoFastPath(xs, yy, xn, params) ==
    LET ym == Ym(yy)
        y_new ==
            IF Len(xs) = 2
            THEN [s \in 1 .. NSides |-> Linspace(ym[s][1], ym[s][2], Len(xn))]
            ELSE IF Len(xn) = 2
            THEN [s \in 1 .. NSides |-> <<ym[s][1], Last(ym[s])>>]
            ELSE CornerOverwrite(LegFitVal(xs, ym, xn, params), ym)
    IN  StripAndFlatten(y_new)

ApproximateTemps(xs, yy, xn, params) ==
    IF xs = xn THEN yy
    ELSE LET ym == Ym(yy)
             y_new ==
                 IF Len(xs) = 2
                 THEN [s \in 1 .. NSides |->
                          Linspace(ym[s][1], ym[s][2], Len(xn))]
                 ELSE IF Len(xn) = 2
                 THEN [s \in 1 .. NSides |-> <<ym[s][1], Last(ym[s])>>]
                 ELSE CornerOverwrite(LegFitVal(xs, ym, xn, params), ym)
         IN  StripAndFlatten(y_new)

\* ------------------------------------------------------------ bounds
MaxX == 3          \* largest position along a hex side
MaxTemp == 1       \* largest value of a temperature profile entry

\* ------------------------------------------------------------ inputs
\* discretizations: strictly increasing positions, two points or more
RECURSIVE SetToSeq(_)
SetToSeq(S) ==
    IF S = {} THEN <<>>
    ELSE LET m == SetMin(S) IN <<m>> \o SetToSeq(S \ {m})

Meshes == {SetToSeq(S) : S \in {T \in SUBSET (0 .. MaxX) : Cardinality(T) >= 2}}

\* temperatures are drawn as multiples of a unit in which the linear and the
\* least-squares values are whole numbers
TempScale(xs, xn) == IF Len(xs) = 2 THEN Len(xn) - 1 ELSE LsqDet(xs)

SideOffsets ==
    {[s \in 1 .. NSides |-> 0], [s \in 1 .. NSides |-> s * (MaxTemp + 1)]}

\* six sides flat: odd sides follow a profile p, even sides its complement,
\* each side raised by its offset
YInputs(n, scale) ==
    {[i \in 1 .. NSides * n |->
         LET s == ((i - 1) \div n) + 1
             j == ((i - 1) % n) + 1
         IN  scale * (off[s] + IF s % 2 = 1 THEN p[j] ELSE MaxTemp - p[j])] :
     off \in SideOffsets,
     p \in [1 .. n -> 0 .. MaxTemp]}

ApproxInit ==
    /\ pc = "approximate_temps"
    /\ x \in Meshes
    /\ x_new \in Meshes
    /\ \E scale \in {TempScale(x, x_new)} : y \in YInputs(Len(x) - 1, scale)
    /\ asm_lstsq_params \in {None, [x_pts |-> x]}
    /\ y_ret = <<>>
    /\ ax_bnd = {}
    /\ min_dz = <<>>
    /\ axial_mesh_size = None
    /\ axial_bnds = <<>>
    /\ core_length = 0
    /\ req_dz = 0
    /\ log = <<>>
    /\ z = <<>>
    /\ dz = <<>>
    /\ SweepIdle

\* the call approximate_temps(x, y, x_new, asm_lstsq_params)
\* the caller's array y once the call has returned: ym = copy.deepcopy(y) is
\* what is reshaped and dressed with the corner column, y itself is kept
InputAfterCall_Dressed(xs, yy, xn) ==
    IF xs = xn THEN yy
    ELSE LET n == Len(yy) \div NSides
             ym == Ym(yy)
         IN  [k \in 1 .. NSides * (n + 1) |->
                 ym[((k - 1) \div (n + 1)) + 1][((k - 1) % (n + 1)) + 1]]

InputAfterCall(xs, yy, xn) == yy

CallApproximateTemps ==
    /\ pc = "approximate_temps"
    /\ y_ret' = ApproximateTemps(x, y, x_new, asm_lstsq_params)
    /\ y' = InputAfterCall(x, y, x_new)
    /\ pc' = "approx_done"
    /\ UNCHANGED <<x, x_new, asm_lstsq_params>>
    /\ UNCHANGED meshvars
    /\ UNCHANGED <<sweepvars, reactorvars, mainvars>>

ApproxNext == CallApproximateTemps

SpecApprox == ApproxInit /\ [][ApproxNext]_vars

Returned == pc = "approx_done"

\* per side: samples of the source and of the returned array
SrcN == Len(y) \div NSides

RetN == Len(y_ret) \div NSides

\* the source corner at which side s ends / starts
EndCorner(s) == y[s * SrcN]

StartCorner(s) == y[PrevSide(s) * SrcN]

\* the least-squares and linear values are whole in the unit of the inputs
ExactArithmetic ==
    pc = "approximate_temps" =>
        LET ym == Ym(y)
            w == HatNums(x, x_new)
        IN  /\ Len(x) > 2 =>
                \A s \in 1 .. NSides : \A k \in DOMAIN x_new :
                    SumTo([j \in DOMAIN x |-> w[k][j] * ym[s][j]], Len(x))
                        % LsqDet(x) = 0
            /\ Len(x) = 2 =>
                \A s \in 1 .. NSides : \A k \in DOMAIN x_new :
                    ((k - 1) * (ym[s][2] - ym[s][1])) % (Len(x_new) - 1) = 0

\* three source points: the fitted polynomial passes through the samples
FitInterpolates ==
    (pc = "approximate_temps" /\ Len(x) = 3) =>
        LET ym == Ym(y)
            f == LegFitVal(x, ym, x, asm_lstsq_params)
        IN  \A s \in 1 .. NSides : \A j \in DOMAIN x : f[s][j] = ym[s][j]

\* ------------------------------------------- claims on approximate_temps
\* the array the fit path would return: stands for "a fit was carried out"
FitPathResult ==
    StripAndFlatten(
        CornerOverwrite(LegFitVal(x, Ym(y), x_new, asm_lstsq_params), Ym(y)))

\* C8: with equal source and target discretizations approximate_temps returns
\* y unchanged, whatever the cached-basis argument is.
C8_IdentityOnEqualMeshes ==
    (Returned /\ x = x_new) => y_ret = y

\* equal discretizations of four points, a cached basis, and a profile that
\* a fit would not have returned as it is
C8_Witness ==
    /\ Returned
    /\ x = x_new
    /\ Len(x) >= 4
    /\ asm_lstsq_params /= None
    /\ y_ret = y
    /\ FitPathResult /= y

\* C9 as claimed: on every path the first and the last sample of every side
\* of the returned array equal source corner values of that side (read in
\* the claim's favour: the first sample may equal either corner of the side).
C9_FirstAndLastAreCorners ==
    Returned =>
        \A s \in 1 .. NSides :
            /\ y_ret[(s - 1) * RetN + 1] \in {StartCorner(s), EndCorner(s)}
            /\ y_ret[s * RetN] = EndCorner(s)

\* C9 amended: on every path the last sample of every side of the returned
\* array equals the source corner in which that side ends (the last source
\* sample of the side); the corner in which a side starts is returned as the
\* last sample of the previous side, not as the first sample of the side.
C9_LastSampleIsCorner ==
    Returned =>
        /\ Len(y_ret) = NSides * RetN
        /\ RetN >= 1
        /\ \A s \in 1 .. NSides :
               /\ y_ret[s * RetN] = EndCorner(s)
               /\ y_ret[PrevSide(s) * RetN] = StartCorner(s)

\* the fit path was taken and the fitted value at the end of some side was
\* not the corner: the overwrite changed it
C9_Witness ==
    /\ Returned
    /\ x /= x_new
    /\ Len(x) > 2
    /\ Len(x_new) > 2
    /\ \E s \in 1 .. NSides :
           /\ StripAndFlatten(LegFitVal(x, Ym(y), x_new,
                                        asm_lstsq_params))[s * RetN]
                  /= EndCorner(s)
           /\ y_ret[s * RetN] = EndCorner(s)

\* C10: with two points in the source and two in the target, equal or not,
\* the six source corner values are returned unchanged, in the same order.
C10_TwoPointMeshesReturnCorners ==
    (Returned /\ Len(x) = 2 /\ Len(x_new) = 2) =>
        /\ Len(y_ret) = NSides
        /\ \A s \in 1 .. NSides : y_ret[s] = y[s]

\* two different two-point discretizations, six pairwise different corners
C10_Witness ==
    /\ Returned
    /\ Len(x) = 2
    /\ Len(x_new) = 2
    /\ x /= x_new
    /\ \A s, t \in 1 .. NSides : s /= t => y[s] /= y[t]
    /\ y_ret = y

\* C11: with a two-point target and a source of more than two points no fit
\* is carried out (the corner branch is the one taken) and the returned array
\* holds, for every side in side order, the last source sample of that side.
C11_TwoPointTargetReturnsCorners ==
    (Returned /\ Len(x) > 2 /\ Len(x_new) = 2) =>
        /\ ApproxBranch(x, x_new) = "corners"
        /\ Len(y_ret) = NSides
        /\ \A s \in 1 .. NSides : y_ret[s] = EndCorner(s)

\* a source of four points, a two-point target, six pairwise different
\* corners, and a side whose first sample is not its corner
C11_Witness ==
    /\ Returned
    /\ Len(x) = 4
    /\ Len(x_new) = 2
    /\ \A s, t \in 1 .. NSides : s /= t => EndCorner(s) /= EndCorner(t)
    /\ \E s \in 1 .. NSides : y[(s - 1) * SrcN + 1] /= EndCorner(s)
    /\ \A s \in 1 .. NSides : y_ret[s] = EndCorner(s)

\* v is the value at position t of the straight line through (t0, a), (t1, b)
OnLine(v, t, t0, a, t1, b) == (v - a) * (t1 - t0) = (b - a) * (t - t0)

\* C12: with a two-point source, the value returned for every target position
\* is the linear interpolation, at that position, between the two corners of
\* the side (read in the claim's favour: the corners sit either at the two
\* source positions or at the two ends of the target discretization).
C12_LinearAtTargetPositions ==
    (Returned /\ Len(x) = 2) =>
        \A s \in 1 .. NSides :
            \/ \A k \in 1 .. RetN :
                   OnLine(y_ret[(s - 1) * RetN + k], x_new[k + 1],
                          x[1], StartCorner(s), x[2], EndCorner(s))
            \/ \A k \in 1 .. RetN :
                   OnLine(y_ret[(s - 1) * RetN + k], x_new[k + 1],
                          x_new[1], StartCorner(s), Last(x_new), EndCorner(s))

\* the call returns on one of the paths that compute a new array
CallReturns == pc = "approximate_temps" /\ pc' = "approx_done"

\* C30: for discretizations that differ the returned array is flat and has
\* exactly 6 * (len(x_new) - 1) values, side by side (the block of a side ends
\* with the corner at which that side of the source ends), on the two-point
\* source, the two-point target and the fit path alike, and the input array y
\* is what it was before the call.
C30_FlatSixSidesInputKept ==
    [][(CallReturns /\ x /= x_new)
           => /\ DOMAIN y' = DOMAIN y
              /\ \A k \in DOMAIN y : y'[k] = y[k]
              /\ DOMAIN y_ret' = 1 .. NSides * (Len(x_new) - 1)
              /\ \A k \in DOMAIN y_ret' : y_ret'[k] \in Int
              /\ \A s \in 1 .. NSides :
                     y_ret'[s * (Len(x_new) - 1)] = y[s * (Len(y) \div NSides)]
       ]_vars

\* a fit from four source points to three target points has returned, the
\* sides of the input at different levels
C30_Witness ==
    /\ Returned
    /\ Len(x) = 4
    /\ Len(x_new) = 3
    /\ Len(y) = NSides * 3
    /\ Len(y_ret) = NSides * 2
    /\ \A s \in 2 .. NSides : y[s * 3] /= y[(s - 1) * 3]

\* ===================================================== axial mesh planner
MeshBuilt == pc = "mesh_done"

\* the req_dz has been decided (after _setup_overall_axial_mesh_req)
ReqDecided == pc \in {"setup_zpts", "zpts_loop", "mesh_done"}

Intervals == {i \in DOMAIN z : i + 1 \in DOMAIN z}

\* boundary planes strictly inside the step proposed at position zz
InsideProposed(zz) ==
    {b \in Range(axial_bnds) : zz < b /\ b < zz + req_dz}

\* C1: the mesh returned by _setup_zpts starts at 0, is strictly increasing
\* with every step size > 0, and its last position is exactly core_length.
C1_MeshFromZeroToCoreLength ==
    MeshBuilt =>
        /\ z[1] = 0
        /\ Len(dz) = Len(z) - 1
        /\ \A i \in Intervals : z[i] < z[i + 1]
        /\ \A i \in DOMAIN dz : dz[i] > 0
        /\ Last(z) = core_length

\* a mesh with a full step followed by a step cut short at core_length
C1_Witness ==
    /\ MeshBuilt
    /\ Len(z) >= 3
    /\ dz[1] = req_dz
    /\ Last(dz) < req_dz
    /\ Last(z) = core_length

\* C2: no mesh interval crosses a boundary plane of axial_bnds, also when
\* several planes lie inside one proposed step.
C2_NoIntervalCrossesBoundary ==
    \A i \in Intervals : \A b \in Range(axial_bnds) :
        ~ (z[i] < b /\ b < z[i + 1])

\* a step was proposed over two or more boundary planes and the mesh went on
C2_Witness ==
    /\ MeshBuilt
    /\ \E i \in Intervals :
           /\ Cardinality(InsideProposed(z[i])) >= 2
           /\ i + 2 \in DOMAIN z

\* C3: every collected boundary plane (rounded to 12 decimals as axial_bnds
\* holds it) that lies in (0, core_length] is a point of the returned mesh.
C3_BoundariesAreMeshPoints ==
    MeshBuilt =>
        \A b \in ax_bnd :
            (Around12(b) > 0 /\ Around12(b) <= core_length)
                => Around12(b) \in Range(z)

\* three distinct planes, one of them not a multiple of the step size
C3_Witness ==
    /\ MeshBuilt
    /\ Len(axial_bnds) >= 3
    /\ req_dz > AroundGrid
    /\ \E b \in Range(axial_bnds) : b > 0 /\ b % req_dz /= 0 /\ b < core_length

\* C4: no interval of the mesh (neither a stored step size nor a difference
\* of consecutive positions) is larger than the minimum of min_dz.
C4_IntervalsWithinMinDz ==
    /\ \A i \in DOMAIN dz : dz[i] <= NpMin(min_dz)
    /\ \A i \in Intervals : z[i + 1] - z[i] <= NpMin(min_dz)

\* a user size was given and a step as large as the minimum itself was taken
C4_Witness ==
    /\ MeshBuilt
    /\ axial_mesh_size /= None
    /\ \E i \in DOMAIN dz : dz[i] = NpMin(min_dz)

\* C5 as claimed: whenever the required step exceeds the ceiling the step
\* used is clipped to the ceiling, for every value of the user override.
C5_ClippedForEveryOverride ==
    (ReqDecided /\ ReqDzFloor(min_dz) > MaxStep) =>
        /\ req_dz <= MaxStep
        /\ \A i \in DOMAIN dz : dz[i] <= MaxStep

\* the user size that escapes the ceiling: ceiling < size <= required step
OverrideAboveCeiling ==
    /\ axial_mesh_size /= None
    /\ Val(axial_mesh_size) > MaxStep
    /\ Val(axial_mesh_size) <= ReqDzFloor(min_dz)

\* C5 amended: when the required step exceeds the ceiling, the step is clipped
\* to the ceiling and no interval is larger than it, unless the user size is
\* itself above the ceiling and not above the required step: then the user
\* size is used unclipped.
C5_ClippedUnlessOverrideApplies ==
    (ReqDecided /\ ReqDzFloor(min_dz) > MaxStep) =>
        IF OverrideAboveCeiling
        THEN req_dz = Val(axial_mesh_size)
        ELSE /\ req_dz <= MaxStep
             /\ \A i \in DOMAIN dz : dz[i] <= MaxStep
             /\ \A i \in Intervals : z[i + 1] - z[i] <= MaxStep

\* the required step is above the ceiling, a user size above the required
\* step was ignored, and a step of exactly the ceiling was taken
C5_Witness ==
    /\ MeshBuilt
    /\ ReqDzFloor(min_dz) > MaxStep
    /\ axial_mesh_size /= None
    /\ Val(axial_mesh_size) > ReqDzFloor(min_dz)
    /\ \E i \in DOMAIN dz : dz[i] = MaxStep

\* C6: the user size is used, exactly, iff it is <= the required step; else
\* it is ignored, that is logged, and the smaller of the required step and
\* the ceiling is used.
C6_OverrideIffNotLarger ==
    ReqDecided =>
        LET required == (NpMin(min_dz) \div FloorGrid) * FloorGrid
            given == axial_mesh_size /= None
            ignored == \E i \in DOMAIN log : log[i] = "ignoring_user"
            used == \E i \in DOMAIN log : log[i] = "using_user"
        IN  /\ (given /\ Val(axial_mesh_size) <= required)
                => (req_dz = Val(axial_mesh_size) /\ used /\ ~ ignored)
            /\ (given /\ Val(axial_mesh_size) > required)
                => (/\ ignored
                    /\ ~ used
                    /\ req_dz = IF required < MaxStep THEN required
                                ELSE MaxStep)
            /\ (~ given)
                => (/\ ~ ignored
                    /\ ~ used
                    /\ req_dz = IF required < MaxStep THEN required
                                ELSE MaxStep)

\* a user size above the ceiling was applied, and meshed with
C6_Witness ==
    /\ MeshBuilt
    /\ axial_mesh_size /= None
    /\ Val(axial_mesh_size) > MaxStep
    /\ req_dz = Val(axial_mesh_size)
    /\ Len(z) >= 2

\* C7: the loop of _setup_zpts terminates whenever every min_dz is positive:
\* every iteration moves the accumulated position forward (so that, the
\* positions being bounded by core_length, the loop ends).
C7_LoopMakesProgress ==
    [][(pc = "zpts_loop" /\ pc' = "zpts_loop" /\ z' /= z)
           => Last(z') > Last(z)]_vars

\* ============================================================ sweep driver
\* ------------------------------------------------------------ bounds
NAsm == 2          \* Units (assemblies) in the core
MaxPlanes == 3     \* most axial steps of a sweep

\* ------------------------------------------------------------ inputs
InletTemp == 10    \* core-wide inlet temperature

\* axial step sizes of the swept meshes: short and long steps alternate
StepAt(i) == IF i % 2 = 1 THEN 1 ELSE 2

\* a.x_pts: Units of odd index carry corners only, the others one more point
UnitXPts(u) == IF u % 2 = 1 THEN <<0, 2>> ELSE <<0, 1, 2>>

\* self.core.x_pts
CoreXPts == <<0, 1, 2>>

\* a._lstsq_params / self.core._lstsq_params: the cached basis of a mesh
LstsqParams(xs) == [x_pts |-> xs]

\* power deposited per unit length next to every duct mesh cell of a Unit
UnitPower(u) ==
    [j \in 1 .. NSides * (Len(UnitXPts(u)) - 1) |-> u + (j % 3)]

\* the Units as loaded before the sweep: everything at the inlet temperature
InitialAssemblies ==
    [u \in 1 .. NAsm |->
        [id |-> u,
         x_pts |-> UnitXPts(u),
         duct_outer_surf_temp |->
             [j \in 1 .. NSides * (Len(UnitXPts(u)) - 1) |-> InletTemp],
         z |-> 0,
         power |-> UnitPower(u)]]

InitialCore ==
    [coolant_gap_temp |->
         [j \in 1 .. NSides * (Len(CoreXPts) - 1) |-> InletTemp],
     updates |-> 0]

\* meshes as _setup_zpts returns them: z starts at 0, z[i + 1] = z[i] + dz[i]
SweepMeshes ==
    {[zz |-> [i \in 1 .. n + 1 |-> SumTo([j \in 1 .. n |-> StepAt(j)], i - 1)],
      dzz |-> [i \in 1 .. n |-> StepAt(i)]] : n \in 1 .. MaxPlanes}

\* the task that raises: none, or the reconciliation / the update of Unit u
\* at plane k
Failures(n) ==
    {None} \cup {<<k, ph, u>> : k \in 1 .. n, ph \in {"reconcile", "unit"},
                                u \in 1 .. NAsm}

\* ------------------------------------------------- collaborators' contracts
\* temperatures are kept within a finite range: the arithmetic of the
\* contracts wraps around at TempRange
TempRange == 1000003

\* Core.calculate_gap_temperatures(dz, t_duct): energy balance of every gap
\* cell with the duct walls next to it (row u of t_duct is Unit u) over dz
CalculateGapTemperatures(gap_temp, dzv, td) ==
    CHOOSE new \in
        {[j \in DOMAIN g |->
             (g[j] + dzv * SumTo([u \in DOMAIN t |-> u * (t[u][j] - g[j])],
                                 Len(t))) % TempRange] :
         g \in {gap_temp}, t \in {td}} : TRUE

\* Core.adjacent_coolant_gap_temp(id): the gap temperatures around a Unit
AdjacentCoolantGapTemp(c, id) == c.coolant_gap_temp

\* Assembly.check_region_update(z) and Assembly.calculate(z, dz, gap_adj_temps,
\* htc, adiabatic, ebal): one axial step of the Unit's own equations; the duct
\* takes up the power and, unless adiabatic, exchanges heat with the gap
AsmCalculate(a, zv, dzv, gap_adj, adiabatic) ==
    CHOOSE new \in
        {[b EXCEPT
             !.z = zv,
             !.duct_outer_surf_temp =
                 [j \in DOMAIN b.duct_outer_surf_temp |->
                     (b.duct_outer_surf_temp[j] + dzv * b.power[j]
                          + IF adiabatic THEN 0
                            ELSE dzv * (g[j] - b.duct_outer_surf_temp[j]))
                         % TempRange]] :
         b \in {a}, g \in {gap_adj}} : TRUE

\* ----------------------------------------------------------- sweep driver
\* self._is_adiabatic
IsAdiabatic == ~ options.gap_model

\* approximate_temps(a.x_pts, a.duct_outer_surf_temp, self.core.x_pts,
\*                   a._lstsq_params)
ReconcileDuct_BeforeSweep(a) ==
    ApproximateTemps(a.x_pts, InitialAssemblies[a.id].duct_outer_surf_temp,
                     CoreXPts, LstsqParams(a.x_pts))

ReconcileDuct(a) ==
    ApproximateTemps(a.x_pts, a.duct_outer_surf_temp, CoreXPts,
                     LstsqParams(a.x_pts))

\* Reactor._calculate_asm_temperatures(asm, z, dz, dump_step) on a core c
CalculateAsmTemperatures(a, zv, dzv, c) ==
    LET gap_adj_temps ==
            ApproximateTemps(CoreXPts, AdjacentCoolantGapTemp(c, a.id),
                             a.x_pts, LstsqParams(CoreXPts))
    IN  AsmCalculate(a, zv, dzv, gap_adj_temps, IsAdiabatic)

\* the position and the step size handed to the step of plane i:
\* self.z[i] and self.dz[i - 1] (Python indices from 0)
PlaneZ_Previous(i) == z[i]

PlaneZ(i) == z[i + 1]

PlaneDz(i) == dz[i]

NPlanes == Len(z) - 1

\* Reactor.axial_step carried out on the Units and the core of a state s
GapStepOf(s, i) ==
    IF options.gap_model
    THEN [coolant_gap_temp |->
              CalculateGapTemperatures(s.core.coolant_gap_temp, PlaneDz(i),
                  [u \in DOMAIN s.assemblies |->
                      ReconcileDuct(s.assemblies[u])]),
          updates |-> s.core.updates + 1]
    ELSE s.core

AxialStepOf(s, i) ==
    CHOOSE new \in
        {[assemblies |->
              [u \in DOMAIN s.assemblies |->
                  CalculateAsmTemperatures(s.assemblies[u], PlaneZ(i),
                                           PlaneDz(i), c)],
          core |-> c] : c \in {GapStepOf(s, i)}} : TRUE

RECURSIVE SerialSweep(_)
\* the Units and the core after the serial steps of planes 1 .. k
SerialSweep(k) ==
    IF k = 0 THEN [assemblies |-> InitialAssemblies, core |-> InitialCore]
    ELSE CHOOSE new \in
             {AxialStepOf(prev, k) : prev \in {SerialSweep(k - 1)}} : TRUE

Raises(k, phase, u) == fail = <<k, phase, u>>

SweepInit ==
    /\ pc = "temperature_sweep"
    /\ \E m \in SweepMeshes :
           /\ z = m.zz
           /\ dz = m.dzz
           /\ fail \in Failures(Len(m.dzz))
    /\ options \in [parallel : BOOLEAN, gap_model : BOOLEAN,
                    dump_any : BOOLEAN, write_output : BOOLEAN]
    /\ step_i = 0
    /\ asm_i = 0
    /\ assemblies = InitialAssemblies
    /\ core = InitialCore
    /\ t_duct = <<>>
    /\ updated_asm = <<>>
    /\ tasks = <<>>
    /\ pool = [state |-> "none", handlers_alive |-> TRUE]
    /\ files = "unset"
    /\ summary = FALSE
    /\ raised = FALSE
    /\ ReactorIdle
    /\ ax_bnd = {}
    /\ min_dz = <<>>
    /\ axial_mesh_size = None
    /\ axial_bnds = <<>>
    /\ core_length = Last(z)
    /\ req_dz = 0
    /\ log = <<>>
    /\ x = <<>>
    /\ y = <<>>
    /\ x_new = <<>>
    /\ asm_lstsq_params = None
    /\ y_ret = <<>>

SweepFrame ==
    UNCHANGED <<meshvars, approxvars, options, fail, reactorvars, mainvars>>

\* temperature_sweep up to its loop: _data_setup, _data_open, mp.Pool()
SweepStart ==
    /\ pc = "temperature_sweep"
    /\ files' = IF options.dump_any THEN "open" ELSE files
    /\ pool' = IF options.parallel
               THEN [pool EXCEPT !.state = "open"] ELSE pool
    /\ pc' = "loop"
    /\ UNCHANGED <<step_i, asm_i, assemblies, core, t_duct, updated_asm,
                   tasks, summary, raised>>
    /\ SweepFrame

\* range(1, len(self.z)) has nothing after i
RangeExhausted_OneEarly(i) == i >= NPlanes - 1

RangeExhausted(i) == i >= NPlanes

\* if self.core.model is not None: the reconciliation and the gap update are
\* carried out, otherwise the step goes on with the Units
AfterModelTest_Unguarded(gm, par) ==
    IF par THEN "submit_reconcile" ELSE "reconcile"

AfterModelTest(gm, par) ==
    IF gm
    THEN (IF par THEN "submit_reconcile" ELSE "reconcile")
    ELSE (IF par THEN "submit_units" ELSE "unit_update")

\* for i in range(1, len(self.z)): the next plane; axial_step or
\* axial_step_parallel is entered, up to the test of self.core.model
SweepStep ==
    /\ pc = "loop"
    /\ ~ RangeExhausted(step_i)
    /\ step_i' = step_i + 1
    /\ asm_i' = 1
    /\ t_duct' = <<>>
    /\ updated_asm' = <<>>
    /\ pc' = AfterModelTest(options.gap_model, options.parallel)
    /\ UNCHANGED <<assemblies, core, tasks, pool, files, summary, raised>>
    /\ SweepFrame

\* axial_step: t_duct = np.array([approximate_temps(...) for a in assemblies])
SerialReconcile ==
    /\ pc = "reconcile"
    /\ IF \E u \in DOMAIN assemblies : Raises(step_i, "reconcile", u)
       THEN /\ raised' = TRUE
            /\ pc' = "failed"
            /\ UNCHANGED t_duct
       ELSE /\ t_duct' = [u \in DOMAIN assemblies |->
                             ReconcileDuct(assemblies[u])]
            /\ pc' = "gap_update"
            /\ UNCHANGED raised
    /\ UNCHANGED <<step_i, asm_i, assemblies, core, updated_asm, tasks, pool,
                   files, summary>>
    /\ SweepFrame

\* self.core.calculate_gap_temperatures(dz, t_duct), serial and parallel
GapUpdate ==
    /\ pc = "gap_update"
    /\ core' = [coolant_gap_temp |->
                    CalculateGapTemperatures(core.coolant_gap_temp,
                                             PlaneDz(step_i), t_duct),
                updates |-> core.updates + 1]
    /\ asm_i' = 1
    /\ pc' = IF options.parallel THEN "submit_units" ELSE "unit_update"
    /\ UNCHANGED <<step_i, assemblies, t_duct, updated_asm, tasks, pool,
                   files, summary, raised>>
    /\ SweepFrame

\* the serial loop works on the Units of self.assemblies themselves: what
\* the update of a Unit does is in the Reactor at once
UpdatedInPlace_OnCopy(asms, i, upd) == asms

UpdatedInPlace(asms, i, upd) == [asms EXCEPT ![i] = upd]

\* axial_step: self._calculate_asm_temperatures(asm, z, dz, dump_step) for
\* the next asm of self.assemblies, which is updated in place; when the
\* update raises, the Unit is left as it was or as far as it was computed
SerialUnitUpdate ==
    /\ pc = "unit_update"
    /\ LET upd == CalculateAsmTemperatures(assemblies[asm_i],
                      PlaneZ(step_i), PlaneDz(step_i), core)
       IN  IF Raises(step_i, "unit", asm_i)
           THEN /\ \E left \in {assemblies[asm_i], upd} :
                       assemblies' = UpdatedInPlace(assemblies, asm_i, left)
                /\ raised' = TRUE
                /\ pc' = "failed"
                /\ UNCHANGED asm_i
           ELSE /\ assemblies' = UpdatedInPlace(assemblies, asm_i, upd)
                /\ asm_i' = asm_i + 1
                /\ pc' = IF asm_i = Len(assemblies) THEN "loop"
                         ELSE "unit_update"
                /\ UNCHANGED raised
    /\ UNCHANGED <<step_i, core, t_duct, updated_asm, tasks, pool, files,
                   summary>>
    /\ SweepFrame

\* the loop of temperature_sweep is exhausted
SweepLoopExit ==
    /\ pc = "loop"
    /\ RangeExhausted(step_i)
    /\ pc' = "pool_close"
    /\ UNCHANGED <<step_i, asm_i, assemblies, core, t_duct, updated_asm,
                   tasks, pool, files, summary, raised>>
    /\ SweepFrame

\* if self._options['parallel']: pool.close(); pool.join()
PoolCloseJoin ==
    /\ pc = "pool_close"
    /\ pool' = IF options.parallel
               THEN [pool EXCEPT !.state = "joined"] ELSE pool
    /\ pc' = "data_close"
    /\ UNCHANGED <<step_i, asm_i, assemblies, core, t_duct, updated_asm,
                   tasks, files, summary, raised>>
    /\ SweepFrame

\* self._data_close(); without dump the KeyError on 'files' is swallowed
DataClose ==
    /\ pc = "data_close"
    /\ files' = IF files = "open" THEN "closed" ELSE files
    /\ pc' = "write_output"
    /\ UNCHANGED <<step_i, asm_i, assemblies, core, t_duct, updated_asm,
                   tasks, pool, summary, raised>>
    /\ SweepFrame

\* if self._options['write_output']: self.write_output_summary()
WriteOutputSummary ==
    /\ pc = "write_output"
    /\ summary' = options.write_output
    /\ pc' = "sweep_done"
    /\ UNCHANGED <<step_i, asm_i, assemblies, core, t_duct, updated_asm,
                   tasks, pool, files, raised>>
    /\ SweepFrame

\* ------------------------------------------------------------ worker pool
\* a task given to the pool by apply_async: what was asked (kind, plane,
\* Unit), whether the call succeeds in the worker and what it returns (both
\* fixed by the arguments pickled with the task), its state (pending; ready:
\* result delivered; raised: error delivered; lost: finished, never delivered),
\* its rank among the finished tasks, and whether get() returned for it
NewTask(kind, k, u, ok, result) ==
    [kind |-> kind, plane |-> k, unit |-> u, ok |-> ok,
     result |-> IF ok THEN result ELSE <<>>,
     state |-> "pending", fin |-> 0, collected |-> FALSE]

Finished == {t \in DOMAIN tasks : tasks[t].fin > 0}

\* AsyncResult.get() returns or raises once the result was delivered
Ready_NoWait(t) == TRUE

Ready(t) == tasks[t].state \in {"ready", "raised"}

\* [h.get() for h in handles]: the results in the order of the handles
Collect_CompletionOrder(handles) ==
    [p \in DOMAIN handles |->
        LET h == CHOOSE g \in Range(handles) :
                     Cardinality({f \in Range(handles) :
                                      tasks[f].fin < tasks[g].fin}) = p - 1
        IN  tasks[h].result]

Collect(handles) == [p \in DOMAIN handles |-> tasks[handles[p]].result]

MarkCollected(t) == [tasks EXCEPT ![t].collected = TRUE]

\* t_duct = [] / updated_asm = []: the handles of the phase before are gone,
\* and with them the tasks, which have all delivered and been collected when
\* get() waits as it does
Forget(tt) ==
    IF \A t \in DOMAIN tt : tt[t].state = "ready" /\ tt[t].collected
    THEN <<>> ELSE tt

\* the tasks the pool holds when the next one is submitted
Held == IF asm_i = 1 THEN Forget(tasks) ELSE tasks

\* the Reactor, pickled as the owner of the submitted bound method, cannot
\* be pickled while it holds open data files
Picklable == files /= "open"

\* the core a worker computes on: self travels with the bound method of every
\* task, so it is the core as it is when the task is submitted, not the copy
\* the worker process got when the pool was made
PickledCore_AtFork(c) == InitialCore

PickledCore(c) == c

\* axial_step_parallel: t_duct.append(worker_pool.apply_async(
\*     approximate_temps, args=(...))) for the next asm
SubmitReconcile ==
    /\ pc = "submit_reconcile"
    /\ tasks' = Append(Held,
           NewTask("reconcile", step_i, asm_i,
                   ~ Raises(step_i, "reconcile", asm_i),
                   ReconcileDuct(assemblies[asm_i])))
    /\ t_duct' = Append(t_duct, Len(Held) + 1)
    /\ IF asm_i = Len(assemblies)
       THEN asm_i' = 1 /\ pc' = "get_reconcile"
       ELSE asm_i' = asm_i + 1 /\ pc' = "submit_reconcile"
    /\ UNCHANGED <<step_i, assemblies, core, updated_asm, pool, files,
                   summary, raised>>
    /\ SweepFrame

\* t_duct = np.array([td.get() for td in t_duct]): the next get()
GetReconcile ==
    /\ pc = "get_reconcile"
    /\ Ready(t_duct[asm_i])
    /\ tasks' = MarkCollected(t_duct[asm_i])
    /\ IF tasks[t_duct[asm_i]].state = "raised"
       THEN /\ raised' = TRUE
            /\ pc' = "failed"
            /\ UNCHANGED <<asm_i, t_duct>>
       ELSE /\ UNCHANGED raised
            /\ IF asm_i = Len(t_duct)
               THEN /\ t_duct' = Collect(t_duct)
                    /\ pc' = "gap_update"
                    /\ UNCHANGED asm_i
               ELSE /\ asm_i' = asm_i + 1
                    /\ pc' = "get_reconcile"
                    /\ UNCHANGED t_duct
    /\ UNCHANGED <<step_i, assemblies, core, updated_asm, pool, files,
                   summary>>
    /\ SweepFrame

\* updated_asm.append(worker_pool.apply_async(
\*     self._calculate_asm_temperatures, args=(asm, z, dz, dump_step,),
\*     error_callback=err_cb)) for the next asm
SubmitUnits ==
    /\ pc = "submit_units"
    /\ tasks' = Append(Held,
           NewTask("unit", step_i, asm_i,
                   Picklable /\ ~ Raises(step_i, "unit", asm_i),
                   CalculateAsmTemperatures(assemblies[asm_i],
                       PlaneZ(step_i), PlaneDz(step_i), PickledCore(core))))
    /\ updated_asm' = Append(updated_asm, Len(Held) + 1)
    /\ IF asm_i = Len(assemblies)
       THEN asm_i' = 1 /\ pc' = "get_units"
       ELSE asm_i' = asm_i + 1 /\ pc' = "submit_units"
    /\ UNCHANGED <<step_i, assemblies, core, t_duct, pool, files, summary,
                   raised>>
    /\ SweepFrame

\* self.assemblies = [a.get() for a in updated_asm]: the next get()
GetUnits ==
    /\ pc = "get_units"
    /\ Ready(updated_asm[asm_i])
    /\ tasks' = MarkCollected(updated_asm[asm_i])
    /\ IF tasks[updated_asm[asm_i]].state = "raised"
       THEN /\ raised' = TRUE
            /\ pc' = "failed"
            /\ UNCHANGED <<asm_i, assemblies>>
       ELSE /\ UNCHANGED raised
            /\ IF asm_i = Len(updated_asm)
               THEN /\ assemblies' = Collect(updated_asm)
                    /\ pc' = "loop"
                    /\ UNCHANGED asm_i
               ELSE /\ asm_i' = asm_i + 1
                    /\ pc' = "get_units"
                    /\ UNCHANGED assemblies
    /\ UNCHANGED <<step_i, core, t_duct, updated_asm, pool, files, summary>>
    /\ SweepFrame

\* a pending task ends, in any order, and the pool's handler thread passes
\* the outcome on: a result or an error is delivered to the AsyncResult,
\* unless the task has an error_callback: err_cb raises the error inside the
\* handler thread, which dies before the AsyncResult is set
WorkerFinishes(t) ==
    /\ tasks[t].state = "pending"
    /\ pool.handlers_alive
    /\ LET rank == Cardinality(Finished) + 1
       IN  IF tasks[t].ok
           THEN /\ tasks' = [tasks EXCEPT ![t].state = "ready",
                                          ![t].fin = rank]
                /\ UNCHANGED pool
           ELSE IF tasks[t].kind = "reconcile"
           THEN /\ tasks' = [tasks EXCEPT ![t].state = "raised",
                                          ![t].fin = rank]
                /\ UNCHANGED pool
           ELSE /\ tasks' = [tasks EXCEPT ![t].state = "lost",
                                          ![t].fin = rank]
                /\ pool' = [pool EXCEPT !.handlers_alive = FALSE]
    /\ UNCHANGED <<pc, step_i, asm_i, assemblies, core, t_duct, updated_asm,
                   files, summary, raised>>
    /\ SweepFrame

SweepNext ==
    \/ SweepStart
    \/ SweepStep
    \/ SerialReconcile
    \/ GapUpdate
    \/ SerialUnitUpdate
    \/ SubmitReconcile
    \/ GetReconcile
    \/ SubmitUnits
    \/ GetUnits
    \/ \E t \in DOMAIN tasks : WorkerFinishes(t)
    \/ SweepLoopExit
    \/ PoolCloseJoin
    \/ DataClose
    \/ WriteOutputSummary

SpecSweep == SweepInit /\ [][SweepNext]_vars

\* ------------------------------------------------ claims on the sweep driver
InSweep == pc \notin {"temperature_sweep"}

\* C13: without a gap model (adiabatic) the gap coolant field is never
\* written during a sweep: at every point of the sweep, hence after every
\* axial step, serial or parallel, it equals its value before the sweep.
C13_AdiabaticGapUntouched ==
    (~ options.gap_model) =>
        /\ core.coolant_gap_temp = InitialCore.coolant_gap_temp
        /\ core.updates = 0

\* an adiabatic parallel sweep of two planes or more has ended, the Units
\* were advanced and the gap is as it was
C13_Witness ==
    /\ ~ options.gap_model
    /\ options.parallel
    /\ pc = "sweep_done"
    /\ step_i >= 2
    /\ \A u \in DOMAIN assemblies :
           /\ assemblies[u].z = Last(z)
           /\ assemblies[u].duct_outer_surf_temp
                  /= InitialAssemblies[u].duct_outer_surf_temp
    /\ core = InitialCore

SweepDone == pc = "sweep_done"

\* two tasks of one phase of one plane finished in the reverse of the order
\* in which they were submitted
FinishedOutOfOrder(kind) ==
    \E t1, t2 \in DOMAIN tasks :
        /\ t1 < t2
        /\ tasks[t1].kind = kind
        /\ tasks[t2].kind = kind
        /\ tasks[t1].plane = tasks[t2].plane
        /\ tasks[t2].fin > 0
        /\ tasks[t1].fin > tasks[t2].fin

\* C14: a sweep that has ended, serial or parallel, whatever the order in
\* which the workers finished, holds the Unit fields and the gap field that
\* the serial steps over the same mesh give from the same initial state.
C14_ParallelEqualsSerial ==
    SweepDone =>
        \A serial \in {SerialSweep(NPlanes)} :
            /\ assemblies = serial.assemblies
            /\ core.coolant_gap_temp = serial.core.coolant_gap_temp

\* a parallel sweep with a gap model over two planes or more has ended with
\* the serial result although Unit updates finished out of order
C14_Witness ==
    /\ SweepDone
    /\ options.parallel
    /\ options.gap_model
    /\ NPlanes >= 2
    /\ FinishedOutOfOrder("unit")
    /\ assemblies = SerialSweep(NPlanes).assemblies
    /\ core.coolant_gap_temp /= InitialCore.coolant_gap_temp

\* the update of some Unit for plane k has started: a task for it was given
\* to the pool, the serial loop over the Units is under way, or a Unit is
\* at the position of the plane
UnitUpdateStarted(k) ==
    \/ \E t \in DOMAIN tasks : tasks[t].kind = "unit" /\ tasks[t].plane = k
    \/ step_i = k /\ pc \in {"submit_units", "get_units"} /\ asm_i > 1
    \/ step_i = k /\ pc = "unit_update"
    \/ \E u \in DOMAIN assemblies : assemblies[u].z = PlaneZ(k)

\* the gap field that the duct temperatures at the end of plane k - 1 give
GapFromPreviousPlane(k) ==
    CHOOSE new \in
        {CalculateGapTemperatures(prev.core.coolant_gap_temp, PlaneDz(k),
             [u \in DOMAIN prev.assemblies |->
                 ApproximateTemps(UnitXPts(u),
                                  prev.assemblies[u].duct_outer_surf_temp,
                                  CoreXPts, LstsqParams(UnitXPts(u)))]) :
         prev \in {SerialSweep(k - 1)}} : TRUE

\* C15: with a gap model the gap update runs exactly once in every axial step
\* (the gap has been updated step_i - 1 or step_i times, and step_i times
\* when the step has returned), it is complete before the update of any Unit
\* for the step starts, and the field it leaves is computed from the duct
\* outer-surface temperatures of every Unit at the end of the previous step.
C15_GapOncePerStepBeforeUnits ==
    (options.gap_model /\ InSweep) =>
        /\ core.updates \in {step_i - 1, step_i}
        /\ (pc = "loop" \/ SweepDone) => core.updates = step_i
        /\ \A k \in 1 .. NPlanes : UnitUpdateStarted(k) => core.updates >= k
        /\ core.updates >= 1 =>
               core.coolant_gap_temp = GapFromPreviousPlane(core.updates)

\* serial sweep with a gap model: the gap update of the second plane is done,
\* every Unit still is at the first plane, and the gap is not what the duct
\* temperatures from before the sweep would give
C15_Witness ==
    /\ options.gap_model
    /\ ~ options.parallel
    /\ step_i = 2
    /\ pc = "unit_update"
    /\ asm_i = 1
    /\ core.updates = 2
    /\ \A u \in DOMAIN assemblies : assemblies[u].z = PlaneZ(1)
    /\ core.coolant_gap_temp /=
           CalculateGapTemperatures(SerialSweep(1).core.coolant_gap_temp,
               PlaneDz(2),
               [u \in DOMAIN assemblies |->
                   ReconcileDuct_BeforeSweep(assemblies[u])])

\* the results of the tasks of one kind for plane k have been collected for
\* every Unit: each task was submitted, has delivered and get() returned
AllCollected(kind, k) ==
    \A u \in DOMAIN assemblies :
        \E t \in DOMAIN tasks :
            /\ tasks[t].kind = kind
            /\ tasks[t].plane = k
            /\ tasks[t].unit = u
            /\ tasks[t].state = "ready"
            /\ tasks[t].collected

\* C16: in parallel mode the gap update of a plane starts only after the
\* reconciliation results of all Units of that plane have been collected; a
\* step returns only after the Unit-update results of all Units have been
\* collected, and every task the pool holds belongs to the plane of the
\* current step: none of plane k is outstanding once plane k + 1 has begun,
\* none of plane k + 1 is submitted before the step of plane k has returned.
C16_FullBarrier ==
    (options.parallel /\ InSweep) =>
        /\ pc = "gap_update" => AllCollected("reconcile", step_i)
        /\ (pc = "loop" /\ step_i >= 1) => AllCollected("unit", step_i)
        /\ \A t \in DOMAIN tasks :
               /\ tasks[t].plane <= step_i
               /\ (tasks[t].plane < step_i
                      \/ \E t2 \in DOMAIN tasks : tasks[t2].plane > tasks[t].plane)
                  => (tasks[t].state = "ready" /\ tasks[t].collected)

\* parallel sweep with a gap model: the gap update of the second plane is
\* about to start, the reconciliations of that plane finished out of order
\* and all of them have been collected
C16_Witness ==
    /\ options.parallel
    /\ options.gap_model
    /\ step_i = 2
    /\ pc = "gap_update"
    /\ FinishedOutOfOrder("reconcile")
    /\ AllCollected("reconcile", 2)

\* the task of the given kind submitted for Unit u at plane k
TaskFor(kind, k, u) ==
    CHOOSE t \in DOMAIN tasks :
        tasks[t].kind = kind /\ tasks[t].plane = k /\ tasks[t].unit = u

\* C17: after every parallel axial step, position i of the list of Units is
\* the result of the task submitted for Unit i (and is Unit i), and when the
\* gap update starts position i of the reconciled duct temperatures is the
\* result of the reconciliation task of Unit i, whatever the finishing order.
C17_ResultsInUnitOrder ==
    (options.parallel /\ step_i >= 1) =>
        /\ (pc = "loop" \/ SweepDone) =>
               /\ Len(assemblies) = NAsm
               /\ \A p \in DOMAIN assemblies :
                      /\ assemblies[p].id = p
                      /\ assemblies[p] = tasks[TaskFor("unit", step_i, p)].result
        /\ pc = "gap_update" =>
               /\ Len(t_duct) = NAsm
               /\ \A p \in DOMAIN t_duct :
                      t_duct[p] = tasks[TaskFor("reconcile", step_i, p)].result

\* the second parallel step has returned; the Unit updates of that plane
\* finished in the reverse of the Unit order
C17_Witness ==
    /\ options.parallel
    /\ options.gap_model
    /\ step_i = 2
    /\ pc = "loop"
    /\ tasks[TaskFor("unit", 2, 1)].fin > tasks[TaskFor("unit", 2, 2)].fin
    /\ t_duct[1] /= t_duct[2]
    /\ assemblies[1] /= assemblies[2]
    /\ \A p \in DOMAIN assemblies : assemblies[p].id = p

\* an update or a reconciliation of plane k has raised: in the main thread
\* (serial mode) or in a worker, whose task then ended with the error
RaisedAt(k) ==
    \/ ~ options.parallel /\ raised /\ step_i = k
    \/ \E t \in DOMAIN tasks :
           /\ tasks[t].plane = k
           /\ Raises(k, tasks[t].kind, tasks[t].unit)
           /\ tasks[t].state \in {"raised", "lost"}

\* nothing of a plane after k was carried out
NothingAfter(k) ==
    /\ step_i <= k
    /\ core.updates <= k
    /\ \A t \in DOMAIN tasks : tasks[t].plane <= k
    /\ \A u \in DOMAIN assemblies : assemblies[u].z <= PlaneZ(k)

InCompletion == pc \in {"pool_close", "data_close", "write_output", "sweep_done"}

\* C18 as claimed: once a Unit update or a reconciliation has raised at plane
\* k, nothing is carried out for a later plane, the completion actions are
\* never reached, and the error reaches the caller: a sweep that can do no
\* further step has left temperature_sweep with the error.
C18_ErrorReachesCaller ==
    \A k \in 1 .. NPlanes :
        RaisedAt(k) =>
            /\ NothingAfter(k)
            /\ ~ InCompletion
            /\ (~ ENABLED SweepNext) => (raised /\ pc = "failed")

\* the sweep was stopped by an error at plane k: the error has left
\* temperature_sweep, or the failed task ended in a worker
Aborted == raised /\ pc = "failed"

FailedPlane == fail[1]

FailedPhase == fail[2]

FailedUnit == fail[3]

\* C19 as claimed: when a sweep has aborted with an error at plane k, the gap
\* field and every Unit hold the temperatures of plane k - 1 (read in the
\* claim's favour: nothing is asked of the Unit whose update raised).
C19_AbortLeavesPreviousPlane ==
    Aborted =>
        \A prev \in {SerialSweep(step_i - 1)} :
            /\ core.coolant_gap_temp = prev.core.coolant_gap_temp
            /\ \A u \in DOMAIN assemblies :
                   (FailedPhase = "unit" /\ FailedUnit = u)
                       \/ assemblies[u] = prev.assemblies[u]

\* C19 amended: nothing is rolled back when an error at plane k stops the
\* sweep.  After a failed reconciliation (serial or parallel) the gap and
\* every Unit hold plane k - 1.  After a failed Unit update in serial mode the
\* gap and the Units before the failing one hold plane k and the Units after
\* it plane k - 1.  After a failed Unit update in a parallel worker the gap
\* holds plane k and the list of Units still holds plane k - 1 for all Units.
C19_AbortLeavesMixedPlanes ==
    (fail /= None /\ RaisedAt(FailedPlane)) =>
        \A prev \in {SerialSweep(FailedPlane - 1)} :
        \A this \in {AxialStepOf(prev, FailedPlane)} :
            /\ FailedPhase = "reconcile" =>
                   /\ core = prev.core
                   /\ assemblies = prev.assemblies
            /\ (FailedPhase = "unit" /\ ~ options.parallel) =>
                   /\ core = this.core
                   /\ \A u \in DOMAIN assemblies :
                          /\ u < FailedUnit => assemblies[u] = this.assemblies[u]
                          /\ u > FailedUnit => assemblies[u] = prev.assemblies[u]
            /\ (FailedPhase = "unit" /\ options.parallel) =>
                   /\ core = this.core
                   /\ assemblies = prev.assemblies

\* serial sweep with a gap model aborted by the update of the last Unit at
\* the second plane: the gap and the first Unit hold the second plane, which
\* differs from the first
C19_Witness ==
    /\ Aborted
    /\ ~ options.parallel
    /\ options.gap_model
    /\ fail = <<2, "unit", NAsm>>
    /\ core = SerialSweep(2).core
    /\ core.coolant_gap_temp /= SerialSweep(1).core.coolant_gap_temp
    /\ assemblies[1] = SerialSweep(2).assemblies[1]
    /\ assemblies[1] /= SerialSweep(1).assemblies[1]

\* nothing raises in this sweep: no update or reconciliation is set to fail
\* and every task given to the pool could be handed to a worker
NoError == fail = None /\ \A t \in DOMAIN tasks : tasks[t].ok

\* C20: in a sweep without error the plane index only ever moves from i to
\* i + 1, from the loop of temperature_sweep; whenever a step has returned,
\* the Units and the gap are the result of stepping once through each of the
\* planes 1 .. i in this order; the completion actions (pool closed and
\* joined, data files closed, summary written when enabled) have not begun
\* before the step of the last plane has returned, and all are done at the
\* end.
C20_EveryPlaneOnceThenCompletion ==
    /\ [](NoError =>
            /\ (pc = "loop" \/ InCompletion) =>
                   /\ \A serial \in {SerialSweep(step_i)} :
                          /\ assemblies = serial.assemblies
                          /\ core = serial.core
                   /\ \A t \in DOMAIN tasks : tasks[t].collected
            /\ InCompletion =>
                   /\ step_i = NPlanes
                   /\ \A u \in DOMAIN assemblies : assemblies[u].z = Last(z)
            /\ (InSweep /\ ~ InCompletion) =>
                   /\ pool.state \in {"none", "open"}
                   /\ files /= "closed"
                   /\ ~ summary
            /\ SweepDone =>
                   /\ options.parallel => pool.state = "joined"
                   /\ options.dump_any => files = "closed"
                   /\ summary = options.write_output)
    /\ [][NoError =>
            \/ step_i' = step_i
            \/ step_i' = step_i + 1 /\ pc = "loop" /\ step_i < NPlanes]_vars

\* a parallel sweep over three planes or more has ended without error: every
\* Unit is at the last position, the pool is joined, the summary is written
C20_Witness ==
    /\ SweepDone
    /\ NoError
    /\ options.parallel
    /\ options.gap_model
    /\ options.write_output
    /\ NPlanes >= 3
    /\ step_i = NPlanes
    /\ core.updates = NPlanes
    /\ \A u \in DOMAIN assemblies : assemblies[u].z = Last(z)
    /\ pool.state = "joined"
    /\ summary

\* ================================================================ run_dassh
\* ------------------------------------------------------------ bounds
MaxTimepoints == 3     \* most timepoints of an input
MaxFileSets == 3       \* distinct sets of neutronics files

\* ------------------------------------------------------------ inputs
\* dassh_input: the number of timepoints and, per timepoint, the set of
\* neutronics files listed for it (inp.data['Neutronics'][...][t])
DasshInputs ==
    UNION {[timepoints : {t}, neutronics : [1 .. t -> 1 .. MaxFileSets]] :
               t \in 1 .. MaxTimepoints}

\* the arguments given on the command line
MainArgs == [no_power_calc : BOOLEAN]

\* os.path.join(dassh_input.path, f'timestep_{i + 1}'), or None
WorkingDir(need_subdir, i) ==
    IF need_subdir THEN Some(<<"timestep", i + 1>>) ELSE None

\* t_pt of calc_power_VARIANT / import_power_VARIANT as Reactor._setup_power
\* calls them: the argument is left at its default, the timestep given to
\* the Reactor among its keyword arguments is not looked at
TPt(timestep) == 0

\* data['Neutronics'][...][t_pt] (Python index from 0)
NeutronicsFiles(data, t_pt) == data.neutronics[t_pt + 1]

\* dassh.Reactor(dassh_inp, calc_power=..., path=wdir, timestep=timestep,
\* write_output=True), as far as its power and its geometry files go, then
\* temperature_sweep
RunReactor(data, args, timestep, wdir) ==
    [path |-> wdir,
     timestep |-> timestep,
     calc_power |-> args.no_power_calc,
     power |-> NeutronicsFiles(data, TPt(timestep)),
     swept |-> TRUE]

MainInit ==
    /\ pc = "run_dassh"
    /\ \E d \in DasshInputs, a \in MainArgs :
           main = [dassh_input |-> d, args |-> a, i |-> 0, reactors |-> <<>>]
    /\ ax_bnd = {}
    /\ min_dz = <<>>
    /\ axial_mesh_size = None
    /\ axial_bnds = <<>>
    /\ core_length = 0
    /\ req_dz = 0
    /\ log = <<>>
    /\ z = <<>>
    /\ dz = <<>>
    /\ x = <<>>
    /\ y = <<>>
    /\ x_new = <<>>
    /\ asm_lstsq_params = None
    /\ y_ret = <<>>
    /\ options = [parallel |-> FALSE, gap_model |-> FALSE,
                  dump_any |-> FALSE, write_output |-> FALSE]
    /\ fail = None
    /\ step_i = 0
    /\ asm_i = 0
    /\ assemblies = <<>>
    /\ core = [coolant_gap_temp |-> <<>>, updates |-> 0]
    /\ t_duct = <<>>
    /\ updated_asm = <<>>
    /\ tasks = <<>>
    /\ pool = [state |-> "none", handlers_alive |-> TRUE]
    /\ files = "unset"
    /\ summary = FALSE
    /\ raised = FALSE
    /\ inp = None
    /\ stepcount = 0
    /\ dump_step = FALSE
    /\ sink = <<>>
    /\ sweeps = 0

MainFrame == UNCHANGED <<meshvars, approxvars, sweepvars, reactorvars>>

\* one pass of `for i in range(dassh_input.timepoints)`: the working
\* directory is chosen and _run_dassh builds and sweeps the Reactor
RunDasshTimepoint ==
    /\ pc = "run_dassh"
    /\ main.i < main.dassh_input.timepoints
    /\ LET need_subdir == main.dassh_input.timepoints > 1
           working_dir == WorkingDir(need_subdir, main.i)
       IN  main' = [main EXCEPT
                       !.reactors =
                           Append(@, RunReactor(main.dassh_input, main.args,
                                                main.i, working_dir)),
                       !.i = @ + 1]
    /\ log' = IF main.dassh_input.timepoints > 1
              THEN Append(log, <<"Timestep", main.i + 1>>) ELSE log
    /\ UNCHANGED <<pc, ax_bnd, min_dz, axial_mesh_size, axial_bnds,
                   core_length, req_dz, z, dz>>
    /\ UNCHANGED <<approxvars, sweepvars, reactorvars>>

\* the range is exhausted: run_dassh returns
RunDasshReturn ==
    /\ pc = "run_dassh"
    /\ ~ (main.i < main.dassh_input.timepoints)
    /\ pc' = "dassh_done"
    /\ UNCHANGED main
    /\ MainFrame

MainNext == RunDasshTimepoint \/ RunDasshReturn

SpecMain == MainInit /\ [][MainNext]_vars

\* C27: the Reactor built for timepoint i of an input with several
\* timepoints takes its power distribution and its core geometry from the
\* i-th set of neutronics files, and runs in the working directory
\* timestep_(i+1).
C27_ReactorUsesFilesOfItsTimepoint ==
    \A k \in DOMAIN main.reactors :
        main.dassh_input.timepoints > 1 =>
            /\ main.reactors[k].timestep = k - 1
            /\ main.reactors[k].path = Some(<<"timestep", k>>)
            /\ main.reactors[k].power = main.dassh_input.neutronics[k]

\* ======================================================== Reactor lifetime
\* The Reactor from its constructor (_setup_asm, _setup_asm_axial_mesh_req,
\* the mesh) through any sequence of temperature_sweep and reset calls, each
\* axial step taken as a whole.
\* ------------------------------------------------------------ bounds
MaxSweeps == 2         \* most calls of temperature_sweep on one Reactor
MaxLogInterval == 2    \* largest reporting interval (log_progress)
MaxDumpInterval == 3   \* largest recording interval (dump interval)

\* ------------------------------------------------------ program constants
DzCutoff == 3      \* conv_approx_dz_cutoff default, 0.001 m, in fine units

\* ------------------------------------------------------------ inputs
\* sc[0] of a governing subchannel: 1 interior, 2 edge, 3 corner, 6 and 7
\* the edge and the corner of the bypass
EdgeCornerCodes == {"2", "3", "6", "7"}

\* inp.data['Assembly'][atype] of a Unit with what calculate_min_dz finds for
\* it: whether the low-fidelity model is asked for, whether 'rods' is among
\* the AxialRegion keys, the stable step and the governing subchannel
UnitData ==
    [use_low_fidelity_model : BOOLEAN, rods : BOOLEAN,
     dz : {DzCutoff - 1, DzCutoff}, sc : {"1", "7"}]

\* Units that are valid: the first rodded with a small step governed by a
\* corner, the others alternately low-fidelity and rodded; `small` tells
\* whether the others have a small step as well
ValidUnits(small) ==
    [u \in 1 .. NAsm |->
        [use_low_fidelity_model |-> (u % 2 = 0),
         rods |-> TRUE,
         dz |-> IF u = 1 \/ small THEN DzCutoff - 1 ELSE DzCutoff,
         sc |-> "7"]]

\* the boundary planes of the swept cores: the core ends and at most one
\* plane between them
AxialBndSets ==
    {<<0, 2 * n>> : n \in 1 .. MaxPlanes}
        \cup {<<0, 2, 2 * n>> : n \in 2 .. MaxPlanes}

\* self._options as _setup_options leaves it
PlainOptions ==
    [parallel |-> FALSE, gap_model |-> TRUE, dump_any |-> FALSE,
     write_output |-> FALSE, conv_approx |-> FALSE,
     conv_approx_dz_cutoff |-> DzCutoff, log_progress |-> FALSE,
     log_interval |-> None, dump_interval |-> None, dump_dz |-> 0]

\* if opt['log_progress'] > 0: log_progress = True and log_interval is set
WithLogProgress(o, n) ==
    IF n > 0
    THEN [o EXCEPT !.log_progress = TRUE, !.log_interval = Some(n)]
    ELSE o

\* self._options['dump']: nothing asked for, every step, or an interval
WithDump(o, d) ==
    IF d[1] = "off" THEN o
    ELSE [o EXCEPT !.dump_any = TRUE,
                   !.dump_interval = IF d[1] = "every" THEN None
                                     ELSE Some(d[2])]

DumpChoices ==
    {<<"off">>, <<"every">>} \cup
        {<<"interval", l>> : l \in 2 .. MaxDumpInterval}

\* ------------------------------------------------- collaborators' contracts
\* Assembly.has_rodded: a Unit built with the low-fidelity model has no
\* rodded Region
HasRodded(data) == ~ data.use_low_fidelity_model

\* the Regions of a Unit: one for the low-fidelity model, otherwise the rod
\* bundle and the Region above it
NRegions(data) == IF data.use_low_fidelity_model THEN 1 ELSE 2

\* self.asm_templates[atype].clone(loc, new_flowrate): a Unit of its own, at
\* the inlet temperature, with its own Regions, none of them stabilized
Clone(u, data) ==
    InitialAssemblies[u] @@
        [has_rodded |-> HasRodded(data),
         lowflow |-> [r \in 1 .. NRegions(data) |-> FALSE]]

\* dassh.assembly.calculate_min_dz(asm, To_lo, To_hi): the stable step of the
\* Unit and the subchannel that governs it; with stabilized Regions the duct
\* coupling no longer limits the step
CalculateMinDz(asm, data) ==
    IF \E r \in DOMAIN asm.lowflow : asm.lowflow[r]
    THEN <<data.dz + 2, "1">>
    ELSE <<data.dz, data.sc>>

\* ------------------------------------------------------------ construction
\* get_rod_bundle_bnds(zfm, asm_data): the bounds of the rod bundle, or None
\* where the assertion on the AxialRegion keys fails
GetRodBundleBnds_Unchecked(data) == Some("bounds")

GetRodBundleBnds(data) ==
    IF data.use_low_fidelity_model THEN Some("zfm")
    ELSE IF data.rods THEN Some("rods")
    ELSE None

\* use_conv_approx of _setup_asm_axial_mesh_req
UseConvApprox(o, asm, dzv, sc) ==
    /\ o.conv_approx
    /\ dzv < o.conv_approx_dz_cutoff
    /\ IF asm.has_rodded THEN sc \in EdgeCornerCodes ELSE TRUE

\* for reg in self.assemblies[ai].region: reg._lowflow = True
SetLowflow_FirstRegion(asm) == [asm EXCEPT !.lowflow[1] = TRUE]

SetLowflow(asm) ==
    [asm EXCEPT !.lowflow = [r \in DOMAIN asm.lowflow |-> TRUE]]

RECURSIVE ZptsFrom(_, _, _, _)
\* the loop of _setup_zpts from the lists zs and dzs on
ZptsFrom(zs, dzs, bnds, req) ==
    IF ~ (Last(zs) < Last(bnds)) \/ Len(zs) >= MaxPts
    THEN [zz |-> zs, dzz |-> dzs]
    ELSE LET d == CheckDz(Last(zs), bnds, req)
         IN  ZptsFrom(Append(zs, Around12(Last(zs) + d)), Append(dzs, d),
                      bnds, req)

\* Reactor._setup_zpts
SetupZpts(bnds, req) == ZptsFrom(<<0>>, <<>>, bnds, req)

ReactorInit ==
    /\ pc = "setup_asm"
    /\ \/ /\ inp \in [units : [1 .. NAsm -> UnitData]]
          /\ options \in {[PlainOptions EXCEPT !.conv_approx = c] :
                             c \in BOOLEAN}
          /\ axial_bnds = <<0, 2>>
          /\ axial_mesh_size = None
          /\ fail = None
       \/ /\ inp \in {[units |-> ValidUnits(s)] : s \in BOOLEAN}
          /\ options \in
                 {WithDump(WithLogProgress(
                      [PlainOptions EXCEPT !.conv_approx = TRUE,
                                           !.parallel = p], n), d) :
                      p \in BOOLEAN, n \in 0 .. MaxLogInterval,
                      d \in DumpChoices}
          /\ axial_bnds \in AxialBndSets
          /\ axial_mesh_size \in {None, Some(3)}
          /\ fail \in IF options.parallel THEN {None}
                      ELSE {None} \cup {<<k, "reconcile", 1>> :
                                           k \in 1 .. Len(axial_bnds)}
    /\ core_length = Last(axial_bnds)
    /\ asm_i = 1
    /\ assemblies = <<>>
    /\ min_dz = <<>>
    /\ req_dz = 0
    /\ log = <<>>
    /\ z = <<>>
    /\ dz = <<>>
    /\ ax_bnd = {}
    /\ step_i = 0
    /\ core = [coolant_gap_temp |-> <<>>, updates |-> 0]
    /\ t_duct = <<>>
    /\ updated_asm = <<>>
    /\ tasks = <<>>
    /\ pool = [state |-> "none", handlers_alive |-> TRUE]
    /\ files = "unset"
    /\ summary = FALSE
    /\ raised = FALSE
    /\ stepcount = 0
    /\ dump_step = FALSE
    /\ sink = <<>>
    /\ sweeps = 0
    /\ main = None
    /\ x = <<>>
    /\ y = <<>>
    /\ x_new = <<>>
    /\ asm_lstsq_params = None
    /\ y_ret = <<>>

\* what no step of the Reactor's lifetime touches
ReactorFrame ==
    UNCHANGED <<ax_bnd, axial_mesh_size, axial_bnds, core_length, approxvars,
                fail, t_duct, updated_asm, tasks, inp, mainvars>>

\* _setup_asm, one pass of its loop: the Unit is cloned from its template
\* and the bounds of its rod bundle are looked up
SetupAsm ==
    /\ pc = "setup_asm"
    /\ IF GetRodBundleBnds(inp.units[asm_i]) = None
       THEN /\ raised' = TRUE
            /\ pc' = "failed"
            /\ UNCHANGED <<assemblies, asm_i>>
       ELSE /\ assemblies' = Append(assemblies, Clone(asm_i, inp.units[asm_i]))
            /\ asm_i' = IF asm_i = NAsm THEN 1 ELSE asm_i + 1
            /\ pc' = IF asm_i = NAsm THEN "setup_asm_axial_mesh_req"
                     ELSE "setup_asm"
            /\ UNCHANGED raised
    /\ UNCHANGED <<min_dz, req_dz, log, z, dz, options, step_i, core, pool,
                   files, summary, stepcount, dump_step, sink, sweeps>>
    /\ ReactorFrame

\* _setup_asm_axial_mesh_req, one pass of its loop
SetupAsmAxialMeshReq ==
    /\ pc = "setup_asm_axial_mesh_req"
    /\ LET asm == assemblies[asm_i]
           first == CalculateMinDz(asm, inp.units[asm_i])
       IN  IF UseConvApprox(options, asm, first[1], first[2])
           THEN LET low == SetLowflow(asm)
                    again == CalculateMinDz(low, inp.units[asm_i])
                IN  /\ assemblies' = [assemblies EXCEPT ![asm_i] = low]
                    /\ min_dz' = Append(min_dz, again[1])
                    /\ log' = log \o <<<<"low_flow", asm.id>>,
                                       <<"step_size", first[1], again[1]>>>>
           ELSE /\ min_dz' = Append(min_dz, first[1])
                /\ UNCHANGED <<assemblies, log>>
    /\ asm_i' = IF asm_i = NAsm THEN 1 ELSE asm_i + 1
    /\ pc' = IF asm_i = NAsm THEN "core_setup" ELSE pc
    /\ UNCHANGED <<req_dz, z, dz, options, step_i, core, pool, files,
                   summary, raised, stepcount, dump_step, sink, sweeps>>
    /\ ReactorFrame

\* the rest of __init__: _core_setup, _setup_overall_axial_mesh_req and
\* _setup_zpts
SetupCoreAndMesh ==
    /\ pc = "core_setup"
    /\ core' = InitialCore
    /\ req_dz' = OverallReqDz(min_dz, axial_mesh_size)
    /\ log' = log \o OverallLog(min_dz, axial_mesh_size)
    /\ \E m \in {SetupZpts(axial_bnds, OverallReqDz(min_dz, axial_mesh_size))} :
           /\ z' = m.zz
           /\ dz' = m.dzz
    /\ pc' = "constructed"
    /\ UNCHANGED <<min_dz, options, step_i, asm_i, assemblies, pool, files,
                   summary, raised, stepcount, dump_step, sink, sweeps>>
    /\ ReactorFrame

\* ---------------------------------------------------------------- sweeps
\* _determine_whether_to_dump_data(z, dz): dump_step and the distance kept
\* in self._options['dump']['dz']
DetermineWhetherToDumpData_BoundaryRestarts(o, zv, dzv, bnds) ==
    IF ~ o.dump_any THEN [dump_step |-> FALSE, dz |-> o.dump_dz]
    ELSE IF o.dump_interval = None
    THEN [dump_step |-> TRUE, dz |-> o.dump_dz + dzv]
    ELSE IF o.dump_dz + dzv >= Val(o.dump_interval) \/ zv \in Range(bnds)
    THEN [dump_step |-> TRUE, dz |-> 0]
    ELSE [dump_step |-> FALSE, dz |-> o.dump_dz + dzv]

DetermineWhetherToDumpData(o, zv, dzv, bnds) ==
    IF ~ o.dump_any THEN [dump_step |-> FALSE, dz |-> o.dump_dz]
    ELSE IF o.dump_interval = None
    THEN [dump_step |-> TRUE, dz |-> o.dump_dz + dzv]
    ELSE IF o.dump_dz + dzv >= Val(o.dump_interval)
    THEN [dump_step |-> TRUE, dz |-> 0]
    ELSE IF zv \in Range(bnds)
    THEN [dump_step |-> TRUE, dz |-> o.dump_dz + dzv]
    ELSE [dump_step |-> FALSE, dz |-> o.dump_dz + dzv]

\* asm.write(self._options['dump']['files'], gap_adj_temps) for every Unit of
\* the serial step of plane i, in the order of self.assemblies
WrittenAt_FirstUnit(n, i) == <<<<n, i, 1>>>>

WrittenAt(n, i) == [u \in 1 .. NAsm |-> <<n, i, u>>]

\* self._stepcount += 1; if log_interval <= self._stepcount:
\* self._print_log_msg(i), which sets self._stepcount = 0
LogProgress(o, count, i) ==
    IF ~ o.log_progress THEN [stepcount |-> count, msg |-> <<>>]
    ELSE IF Val(o.log_interval) <= count + 1
    THEN [stepcount |-> 0, msg |-> <<<<"progress", i>>>>]
    ELSE [stepcount |-> count + 1, msg |-> <<>>]

\* temperature_sweep up to its loop: _data_setup, _data_open, mp.Pool();
\* self._stepcount is left as the sweep finds it
TemperatureSweepEnter ==
    /\ pc = "constructed"
    /\ sweeps < MaxSweeps
    /\ sweeps' = sweeps + 1
    /\ options' = IF options.dump_any THEN [options EXCEPT !.dump_dz = 0]
                  ELSE options
    /\ log' = log \o (IF options.dump_any THEN <<<<"dumping">>>> ELSE <<>>)
    /\ files' = IF options.dump_any THEN "open" ELSE files
    /\ pool' = IF options.parallel THEN [pool EXCEPT !.state = "open"]
               ELSE pool
    /\ step_i' = 0
    /\ raised' = FALSE
    /\ pc' = "sweep_loop"
    /\ UNCHANGED <<min_dz, req_dz, z, dz, asm_i, assemblies, core, summary,
                   stepcount, dump_step, sink>>
    /\ ReactorFrame

\* one pass of the loop of temperature_sweep: axial_step or
\* axial_step_parallel for the next plane, then the progress count.  The
\* step that raises leaves the loop; the parallel step whose Unit tasks
\* cannot be given to the pool never returns.
TemperatureSweepStep ==
    /\ pc = "sweep_loop"
    /\ ~ RangeExhausted(step_i)
    /\ step_i' = step_i + 1
    /\ \E d \in {DetermineWhetherToDumpData(options, PlaneZ(step_i + 1),
                     PlaneDz(step_i + 1), axial_bnds)} :
        /\ dump_step' = d.dump_step
        /\ options' = [options EXCEPT !.dump_dz = d.dz]
        /\ IF sweeps = 1 /\ Raises(step_i + 1, "reconcile", 1)
           THEN /\ raised' = TRUE
                /\ pc' = "constructed"
                /\ UNCHANGED <<assemblies, core, sink, stepcount, log>>
           ELSE IF options.parallel /\ ~ Picklable
           THEN /\ core' = GapStepOf([assemblies |-> assemblies,
                                      core |-> core], step_i + 1)
                /\ pc' = "hung"
                /\ UNCHANGED <<assemblies, sink, stepcount, log, raised>>
           ELSE /\ \E new \in {AxialStepOf([assemblies |-> assemblies,
                                            core |-> core], step_i + 1)} :
                       /\ assemblies' = new.assemblies
                       /\ core' = new.core
                /\ sink' = IF d.dump_step
                           THEN sink \o WrittenAt(sweeps, step_i + 1)
                           ELSE sink
                /\ \E p \in {LogProgress(options, stepcount, step_i + 1)} :
                       /\ stepcount' = p.stepcount
                       /\ log' = log \o p.msg
                /\ UNCHANGED <<pc, raised>>
    /\ UNCHANGED <<min_dz, req_dz, z, dz, asm_i, pool, files, summary,
                   sweeps>>
    /\ ReactorFrame

\* the loop is exhausted: pool.close(), pool.join(), _data_close() and the
\* output summary
TemperatureSweepExit ==
    /\ pc = "sweep_loop"
    /\ RangeExhausted(step_i)
    /\ pool' = IF options.parallel THEN [pool EXCEPT !.state = "joined"]
               ELSE pool
    /\ files' = IF files = "open" THEN "closed" ELSE files
    /\ summary' = (summary \/ options.write_output)
    /\ pc' = "constructed"
    /\ UNCHANGED <<min_dz, req_dz, log, z, dz, options, step_i, asm_i,
                   assemblies, core, raised, stepcount, dump_step, sink,
                   sweeps>>
    /\ ReactorFrame

\* reset, for one array: arr *= 0.0; arr += self.inlet_temp
ResetArray(arr) == [j \in DOMAIN arr |-> arr[j] * 0 + InletTemp]

\* reset, for the temperature arrays of the Regions of one Unit
ResetUnit_Recloned(a) ==
    [a EXCEPT !.duct_outer_surf_temp = ResetArray(@),
              !.lowflow = [r \in DOMAIN @ |-> FALSE]]

ResetUnit_FirstCellKept(a) ==
    [a EXCEPT !.duct_outer_surf_temp =
                  [j \in DOMAIN @ |-> IF j = 1 THEN @[j] ELSE InletTemp]]

ResetUnit(a) == [a EXCEPT !.duct_outer_surf_temp = ResetArray(@)]

\* Reactor.reset
Reset ==
    /\ pc = "constructed"
    /\ core' = [core EXCEPT !.coolant_gap_temp = ResetArray(@)]
    /\ assemblies' = [u \in DOMAIN assemblies |-> ResetUnit(assemblies[u])]
    /\ UNCHANGED <<pc, min_dz, req_dz, log, z, dz, options, step_i, asm_i,
                   pool, files, summary, raised, stepcount, dump_step, sink,
                   sweeps>>
    /\ ReactorFrame

ReactorNext ==
    \/ SetupAsm
    \/ SetupAsmAxialMeshReq
    \/ SetupCoreAndMesh
    \/ TemperatureSweepEnter
    \/ TemperatureSweepStep
    \/ TemperatureSweepExit
    \/ Reset

SpecReactor == ReactorInit /\ [][ReactorNext]_vars

\* ------------------------------------------------------ Reactor lifetime claims
\* the loop of a sweep has taken the step of plane step_i' and goes on
StepTaken == pc = "sweep_loop" /\ pc' = "sweep_loop" /\ step_i' = step_i + 1

\* the progress message of plane i is the last entry of the log
ReportedAt(i) == log' = Append(log, <<"progress", i>>)

\* C21: with a reporting interval N configured, in every sweep run on a
\* Reactor (the first or a later one) the step of plane i is followed by a
\* progress report exactly when i is a positive multiple of N.
C21_ReportsAtMultiplesOfInterval ==
    [][(StepTaken /\ options.log_progress)
           => /\ ReportedAt(step_i') <=>
                     (step_i' % Val(options.log_interval) = 0)
              /\ ~ ReportedAt(step_i') => log' = log]_vars

\* the Reactor is built: __init__ has returned
Constructed == pc \in {"constructed", "sweep_loop", "hung"}

\* every Region of Unit a carries the stabilized flag / none does
AllStabilized(a) == \A r \in DOMAIN a.lowflow : a.lowflow[r]

NoneStabilized(a) == \A r \in DOMAIN a.lowflow : ~ a.lowflow[r]

\* every temperature of the Reactor is the inlet temperature
AtInletTemp(asms, c) ==
    /\ \A j \in DOMAIN c.coolant_gap_temp : c.coolant_gap_temp[j] = InletTemp
    /\ \A u \in DOMAIN asms :
           \A j \in DOMAIN asms[u].duct_outer_surf_temp :
               asms[u].duct_outer_surf_temp[j] = InletTemp

\* C22: the stabilized flag of a Region is one-way: no step of the Reactor
\* (an axial step of the serial or the parallel mode, with its region
\* transition, reset, a repeated sweep) clears a flag that is set.
C22_StabilizedFlagIsOneWay ==
    [][\A u \in DOMAIN assemblies :
           \A r \in DOMAIN assemblies[u].lowflow :
               assemblies[u].lowflow[r]
                   => /\ u \in DOMAIN assemblies'
                      /\ r \in DOMAIN assemblies'[u].lowflow
                      /\ assemblies'[u].lowflow[r]]_vars

\* a Reactor with a stabilized Unit was swept twice, in parallel mode, and
\* then reset
C22_Witness ==
    /\ pc = "constructed"
    /\ sweeps = 2
    /\ options.parallel
    /\ step_i = NPlanes
    /\ core.updates = 2 * NPlanes
    /\ AtInletTemp(assemblies, core)
    /\ \E u \in DOMAIN assemblies : AllStabilized(assemblies[u])

\* a Unit that is declared rodded and has no 'rods' among its axial regions
Misconfigured ==
    \E u \in DOMAIN inp.units :
        /\ ~ inp.units[u].use_low_fidelity_model
        /\ ~ inp.units[u].rods

\* C23: a Unit declared rodded without rod-bundle bounds makes the
\* constructor fail: the Reactor is never built and no axial step is taken;
\* and no step after _setup_asm ends in that failure (the stepping path
\* validates nothing).
C23_MissingRodsFailConstruction ==
    /\ [](Misconfigured
             => /\ pc \in {"setup_asm", "failed"}
                /\ step_i = 0
                /\ sweeps = 0
                /\ pc = "failed" => raised)
    /\ [][pc' = "failed" => pc = "setup_asm" /\ Misconfigured]_vars

\* the second Unit is the one without bounds: the first was cloned, then the
\* constructor failed
C23_Witness ==
    /\ pc = "failed"
    /\ raised
    /\ Len(assemblies) = 1
    /\ ~ inp.units[2].use_low_fidelity_model
    /\ ~ inp.units[2].rods

\* the trigger rule as the claim states it / as the code applies it
EdgeCornerTrigger(u) ==
    /\ options.conv_approx
    /\ inp.units[u].dz < DzCutoff
    /\ inp.units[u].sc \in EdgeCornerCodes

Trigger(u) ==
    /\ options.conv_approx
    /\ inp.units[u].dz < DzCutoff
    /\ (~ inp.units[u].use_low_fidelity_model)
           => inp.units[u].sc \in EdgeCornerCodes

\* C24 as stated: after construction every Region of a Unit carries the
\* flag if low flow is enabled, the Unit's stable step is below the cutoff
\* and the step is governed by an edge/corner subchannel; otherwise no Region
\* of the Unit carries it.
C24_FlagsFollowEdgeCornerRule ==
    Constructed =>
        \A u \in DOMAIN assemblies :
            IF EdgeCornerTrigger(u) THEN AllStabilized(assemblies[u])
            ELSE NoneStabilized(assemblies[u])

\* C24, amended: after construction every Region of a Unit carries the flag
\* if low flow is enabled, the Unit's stable step is below the cutoff and
\* either the Unit has no rodded Region or the step is governed by an
\* edge/corner subchannel; otherwise no Region of the Unit carries it; while
\* the Units are gone through, those not yet reached carry no flag.
C24_FlagsFollowTriggerRule ==
    /\ Constructed =>
           \A u \in DOMAIN assemblies :
               IF Trigger(u) THEN AllStabilized(assemblies[u])
               ELSE NoneStabilized(assemblies[u])
    /\ pc = "setup_asm_axial_mesh_req" =>
           \A u \in DOMAIN assemblies :
               /\ u >= asm_i => NoneStabilized(assemblies[u])
               /\ u < asm_i /\ ~ Trigger(u) => NoneStabilized(assemblies[u])

\* a rodded Unit with two Regions is stabilized, its neighbour, a
\* low-fidelity Unit whose step is not below the cutoff, is not
C24_Witness ==
    /\ pc = "constructed"
    /\ Len(assemblies[1].lowflow) = 2
    /\ AllStabilized(assemblies[1])
    /\ ~ assemblies[2].has_rodded
    /\ NoneStabilized(assemblies[2])

\* the sweep is between two steps, at its end, or at a standstill
AtRest == pc \in {"sweep_loop", "constructed", "hung"} /\ sweeps >= 1

\* the distance covered by the steps of planes p + 1 .. k
Distance(p, k) == SumTo(dz, k) - SumTo(dz, p)

RECURSIVE LastIntervalRecording(_)
\* the last plane up to k with an interval-triggered recording, 0 for the
\* start of the sweep: plane k is one when the distance since the one before
\* has reached the interval
LastIntervalRecording(k) ==
    IF k = 0 THEN 0
    ELSE CHOOSE last \in
             {IF Distance(p, k) >= Val(options.dump_interval) THEN k ELSE p :
                  p \in {LastIntervalRecording(k - 1)}} : TRUE

\* plane k is a mandatory boundary plane
BoundaryPlane(k) == PlaneZ(k) \in Range(axial_bnds)

\* plane k is a recording step, as the claim has it
RecordingStep(k) ==
    /\ options.dump_any
    /\ \/ options.dump_interval = None
       \/ LastIntervalRecording(k) = k
       \/ BoundaryPlane(k)

RECURSIVE ExpectedSink(_, _)
\* the records of sweep n up to plane k: one per Unit, in Unit order, for
\* every recording step
ExpectedSink(n, k) ==
    IF k = 0 THEN <<>>
    ELSE ExpectedSink(n, k - 1) \o
             (IF RecordingStep(k) THEN [u \in 1 .. NAsm |-> <<n, k, u>>]
              ELSE <<>>)

\* the records written during sweep n
WrittenIn(n) == SelectSeq(sink, LAMBDA rec : rec[1] = n)

\* C26: on a recording step each Unit's snapshot is written exactly once,
\* in Unit order, in serial and in parallel mode alike: between two steps
\* the records of the sweep are those of the recording steps taken so far,
\* and a sweep that has come to its end or to a standstill without an error
\* has written those of all its planes.
C26_SnapshotsOncePerUnitInBothModes ==
    (AtRest /\ ~ raised) =>
        WrittenIn(sweeps) =
            ExpectedSink(sweeps, IF pc = "sweep_loop" THEN step_i
                                 ELSE NPlanes)

\* the step from the state to the next one is a call of reset
ResetCalled == pc = "constructed" /\ pc' = "constructed"

\* C28: reset, called after any number of axial steps or sweeps, sets every
\* entry of the gap coolant field and of every temperature array of every
\* Unit to the inlet temperature and leaves the axial mesh, the options and
\* the stabilized flags of the Regions as they are.
C28_ResetRestoresInletTemperature ==
    [][ResetCalled
           => /\ AtInletTemp(assemblies', core')
              /\ DOMAIN assemblies' = DOMAIN assemblies
              /\ DOMAIN core'.coolant_gap_temp = DOMAIN core.coolant_gap_temp
              /\ \A u \in DOMAIN assemblies :
                     /\ DOMAIN assemblies'[u].duct_outer_surf_temp =
                            DOMAIN assemblies[u].duct_outer_surf_temp
                     /\ assemblies'[u].lowflow = assemblies[u].lowflow
              /\ z' = z
              /\ dz' = dz
              /\ options' = options]_vars

\* swept (the second sweep was aborted after its steps had heated the Units)
\* and then reset: everything is at the inlet temperature, the flags are
\* still set
C28_Witness ==
    /\ pc = "constructed"
    /\ sweeps >= 1
    /\ step_i >= 2
    /\ core.updates >= 2
    /\ options.dump_dz > 0
    /\ AtInletTemp(assemblies, core)
    /\ \E u \in DOMAIN assemblies : AllStabilized(assemblies[u])

\* the step of plane step_i has been carried out to its end
StepCompleted == pc = "sweep_loop" /\ step_i >= 1

\* the pair handed to the step of plane step_i is seen in what the step
\* leaves: the Units stand at z[i], the distance kept for the recordings has
\* grown by dz[i - 1]
StepConsumedItsPair ==
    /\ \A u \in DOMAIN assemblies : assemblies[u].z = z[step_i + 1]
    /\ (options.dump_any /\ options.dump_interval = None)
           => options.dump_dz = SumTo(dz, step_i)

\* neither z nor dz changes once the Reactor is built
MeshKept == [][Constructed => z' = z /\ dz' = dz]_vars

\* C29 as stated: len(dz) = len(z) - 1, z[i] = z[i-1] + dz[i-1] for every
\* i >= 1, so that the step sizes sum to core_length; the step of plane i is
\* called with (z[i], dz[i-1]); neither sequence is modified by a sweep or
\* by reset.
C29_MeshIsRunningSumOfSteps ==
    /\ [](Constructed
             => /\ Len(dz) = Len(z) - 1
                /\ \A i \in DOMAIN dz : z[i + 1] = z[i] + dz[i]
                /\ SumTo(dz, Len(dz)) = core_length)
    /\ [](StepCompleted => StepConsumedItsPair)
    /\ MeshKept

\* C29, amended: len(dz) = len(z) - 1, z[0] = 0 and z[i] is z[i-1] + dz[i-1]
\* rounded to 12 decimals for every i >= 1, the last position being
\* core_length; the step of plane i is called with (z[i], dz[i-1]); neither
\* sequence is modified by a sweep or by reset.
C29_MeshIsRoundedSumOfSteps ==
    /\ [](Constructed
             => /\ Len(dz) = Len(z) - 1
                /\ z[1] = 0
                /\ \A i \in DOMAIN dz : z[i + 1] = Around12(z[i] + dz[i])
                /\ Last(z) = core_length)
    /\ [](StepCompleted => StepConsumedItsPair)
    /\ MeshKept

\* a mesh whose first position is not the first step size (a user step of 3
\* fine units, rounded to 4) has been swept, reset and is swept again
C29_Witness ==
    /\ pc = "sweep_loop"
    /\ sweeps = 2
    /\ step_i = 2
    /\ dz[1] = 3
    /\ z[2] = 4
    /\ SumTo(dz, Len(dz)) < core_length

====
